---- MODULE Spec2Model ----
(***************************************************************************)
(* Trading decision engine of Bull-Maharaj (server/model/tradingBot.ts,    *)
(* the TradingBot class at src/server/auth.ts:340-1258), its in-memory     *)
(* ledger (MemStorage, src/unnamed/part_002) and the HTTP handlers that    *)
(* call it (src/unnamed/part_000).                                         *)
(*                                                                         *)
(* JavaScript numbers are modelled as exact rationals [n |-> numerator,    *)
(* d |-> denominator], normalised, d > 0.  The three non-finite values of  *)
(* IEEE arithmetic are kept: d = 0 with n = 0 is NaN, d = 0 with n = 1 or  *)
(* n = -1 is +Infinity or -Infinity.  Rounding of the 53-bit mantissa is   *)
(* not modelled.                                                           *)
(***************************************************************************)
EXTENDS Integers, Sequences, FiniteSets, TLC

(***************************************************************************)
(* Number arithmetic (the JavaScript operators + - * / < > on numbers).    *)
(***************************************************************************)
Abs(i) == IF i < 0 THEN -i ELSE i

Sgn(i) == IF i < 0 THEN -1 ELSE IF i > 0 THEN 1 ELSE 0

RECURSIVE GCD(_, _)
GCD(a, b) == IF b = 0 THEN a ELSE GCD(b, a % b)

Norm(n, d) ==
  CHOOSE r \in
    { IF p = 0 THEN [n |-> 0, d |-> 1]
      ELSE CHOOSE q \in { [n |-> p \div g, d |-> d \div g] : g \in {GCD(Abs(p), d)} } : TRUE
      : p \in {n} } : TRUE

R(n, d) == Norm(n, d)

I(n) == [n |-> n, d |-> 1]

NaN == [n |-> 0, d |-> 0]

Infinity == [n |-> 1, d |-> 0]

NegInfinity == [n |-> -1, d |-> 0]

\* Operands are evaluated once, before the operator is applied (JavaScript is
\* call by value): each operator below binds its operands to x and y first.
IsNaN(a) == \E x \in {a} : x.d = 0 /\ x.n = 0

IsFinite(a) == a.d > 0

RNeg(a) == CHOOSE r \in { [n |-> -(x.n), d |-> x.d] : x \in {a} } : TRUE

RAdd(a, b) ==
  CHOOSE r \in
    { IF x.d > 0 /\ y.d > 0
      THEN LET g  == GCD(x.d, y.d)
               xd == x.d \div g
               yd == y.d \div g
           IN  Norm(x.n * yd + y.n * xd, xd * y.d)
      ELSE IF IsNaN(x) \/ IsNaN(y) THEN NaN
      ELSE IF x.d = 0 /\ y.d = 0 THEN (IF x.n = y.n THEN x ELSE NaN)
      ELSE IF x.d = 0 THEN x ELSE y : x \in {a}, y \in {b} } : TRUE

RSub(a, b) == RAdd(a, RNeg(b))

RMul(a, b) ==
  CHOOSE r \in
    { IF x.d > 0 /\ y.d > 0
      THEN IF x.n = 0 \/ y.n = 0 THEN [n |-> 0, d |-> 1]
           ELSE LET g1 == GCD(Abs(x.n), y.d)
                    g2 == GCD(Abs(y.n), x.d)
                IN  [n |-> (x.n \div g1) * (y.n \div g2),
                     d |-> (x.d \div g2) * (y.d \div g1)]
      ELSE IF IsNaN(x) \/ IsNaN(y) \/ x.n = 0 \/ y.n = 0 THEN NaN
      ELSE [n |-> Sgn(x.n) * Sgn(y.n), d |-> 0] : x \in {a}, y \in {b} } : TRUE

\* a / b: x/0 is +-Infinity, 0/0 is NaN, x/Infinity is 0
RDiv(a, b) ==
  CHOOSE r \in
    { IF x.d > 0 /\ y.d > 0
      THEN IF y.n = 0
           THEN [n |-> Sgn(x.n), d |-> 0]
           ELSE RMul(x, [n |-> Sgn(y.n) * y.d, d |-> Abs(y.n)])
      ELSE IF IsNaN(x) \/ IsNaN(y) \/ (x.d = 0 /\ y.d = 0) THEN NaN
      ELSE IF y.d = 0 THEN [n |-> 0, d |-> 1]
      ELSE [n |-> x.n * (IF y.n < 0 THEN -1 ELSE 1), d |-> 0] : x \in {a}, y \in {b} } : TRUE

RECURSIVE FracLt(_, _, _, _)
\* a / b < c / d for b > 0 and d > 0, by the whole parts and then the rests
FracLt(a, b, c, d) ==
  LET q1 == a \div b
      q2 == c \div d
      r1 == a % b
      r2 == c % d
  IN  IF q1 # q2 THEN q1 < q2
      ELSE IF r2 = 0 THEN FALSE
      ELSE IF r1 = 0 THEN TRUE
      ELSE FracLt(d, r2, b, r1)

\* a < b; every comparison with NaN is false
RLt(a, b) ==
  \E x \in {a}, y \in {b} :
    IF x.d > 0 /\ y.d > 0
    THEN FracLt(x.n, x.d, y.n, y.d)
    ELSE IF IsNaN(x) \/ IsNaN(y) THEN FALSE
    ELSE IF x.d = 0 /\ y.d = 0 THEN x.n < y.n
    ELSE IF x.d = 0 THEN x.n < 0 ELSE y.n > 0

RGt(a, b) == RLt(b, a)

RLe(a, b) == \E x \in {a}, y \in {b} : ~IsNaN(x) /\ ~IsNaN(y) /\ ~RLt(y, x)

RGe(a, b) == RLe(b, a)

\* Math.abs
RAbs(a) == CHOOSE r \in { [n |-> Abs(x.n), d |-> x.d] : x \in {a} } : TRUE

\* Math.min(a, b) and Math.max(a, b): NaN if either argument is NaN
RMin(a, b) ==
  CHOOSE r \in { IF IsNaN(x) \/ IsNaN(y) THEN NaN ELSE IF RLt(y, x) THEN y ELSE x :
                 x \in {a}, y \in {b} } : TRUE

RMax(a, b) ==
  CHOOSE r \in { IF IsNaN(x) \/ IsNaN(y) THEN NaN ELSE IF RLt(x, y) THEN y ELSE x :
                 x \in {a}, y \in {b} } : TRUE

RECURSIVE ISqrtBetween(_, _, _)
\* the largest r in lo..hi with r * r <= k
ISqrtBetween(k, lo, hi) ==
  IF lo >= hi THEN lo
  ELSE LET mid == (lo + hi + 1) \div 2
       IN  IF mid * mid <= k THEN ISqrtBetween(k, mid, hi)
           ELSE ISqrtBetween(k, lo, mid - 1)

ISqrt(k) == ISqrtBetween(k, 0, IF k < 46340 THEN k ELSE 46340)

RECURSIVE SqrtBelow(_, _)
\* a rational just below sqrt(n / d): floor(sqrt(n * d)) / d, after n and d are
\* scaled down together until n * d fits the integers
SqrtBelow(n, d) ==
  IF n <= 2147483647 \div d THEN Norm(ISqrt(n * d), d)
  ELSE IF d < 4 THEN I(ISqrt(n \div d))
  ELSE SqrtBelow(n \div 4, d \div 4)

\* Math.sqrt: exact when the argument is the square of a rational, else the
\* rational of SqrtBelow (about four significant digits)
RSqrt(a) ==
  CHOOSE r \in
    { IF x.d = 0 THEN (IF x.n = 1 THEN x ELSE NaN)
      ELSE IF x.n < 0 THEN NaN
      ELSE CHOOSE q \in
             { IF rn * rn = x.n /\ rd * rd = x.d THEN [n |-> rn, d |-> rd]
               ELSE SqrtBelow(x.n, x.d) : rn \in {ISqrt(x.n)}, rd \in {ISqrt(x.d)} } : TRUE
      : x \in {a} } : TRUE

(***************************************************************************)
(* Array helpers.  A price history is the sequence of its closing prices   *)
(* (priceHistory.map(day => day.close)); no strategy reads another field.  *)
(***************************************************************************)
\* F applied to the value of v: v is evaluated once, as a const declaration is
Once(v, F(_)) == CHOOSE r \in { F(x) : x \in {v} } : TRUE

\* prices.slice(-k)
LastN(s, k) == IF Len(s) <= k THEN s ELSE SubSeq(s, Len(s) - k + 1, Len(s))

\* prices.slice(0, -k)
DropLast(s, k) == IF Len(s) <= k THEN << >> ELSE SubSeq(s, 1, Len(s) - k)

\* prices.slice(0, k)
FirstN(s, k) == IF Len(s) <= k THEN s ELSE SubSeq(s, 1, k)

RECURSIVE SumRange(_, _, _, _)
\* for (i = lo; i <= hi; i++) sum = sum + s[i].  This loop and the ones below
\* are unrolled by halves, the first half before the second, which keeps the
\* evaluation depth logarithmic in the number of passes.
SumRange(s, lo, hi, sum) ==
  IF lo > hi THEN sum
  ELSE IF lo = hi THEN RAdd(sum, s[lo])
  ELSE Once(SumRange(s, lo, (lo + hi) \div 2, sum),
            LAMBDA left : SumRange(s, (lo + hi) \div 2 + 1, hi, left))

\* s.reduce((a, b) => a + b, 0) over the first k elements
SumSeq(s, k) == SumRange(s, 1, k, I(0))

(***************************************************************************)
(* Indicator library.                                                      *)
(***************************************************************************)
\* the average of the prices there are, when they are fewer than the period
calculateSMA_meanOfFewer(prices, period) ==
  Once(prices, LAMBDA p :
    IF Len(p) = 0 THEN NaN
    ELSE IF Len(p) < period THEN RDiv(SumSeq(p, Len(p)), I(Len(p)))
    ELSE RDiv(SumSeq(LastN(p, period), period), I(period)))

\* prices[prices.length - 1] of an empty array is undefined; arithmetic on it is NaN
calculateSMA(prices, period) ==
  Once(prices, LAMBDA p :
    IF Len(p) < period
    THEN (IF Len(p) = 0 THEN NaN ELSE p[Len(p)])
    ELSE RDiv(SumSeq(LastN(p, period), period), I(period)))

\* one pass of the loop body of calculateEMA (i is the 1-based index of prices[i])
EMAStep(prices, multiplier, ema, i) ==
  RAdd(RMul(RSub(prices[i], ema), multiplier), ema)

RECURSIVE EMARange(_, _, _, _, _)
\* for (i = lo; i <= hi; i++) ema = EMAStep(ema, i)
EMARange(prices, multiplier, lo, hi, ema) ==
  IF lo > hi THEN ema
  ELSE IF lo = hi THEN EMAStep(prices, multiplier, ema, lo)
  ELSE Once(EMARange(prices, multiplier, lo, (lo + hi) \div 2, ema),
            LAMBDA left : EMARange(prices, multiplier, (lo + hi) \div 2 + 1, hi, left))

calculateEMA(prices, period) ==
  Once(prices, LAMBDA p :
    IF Len(p) < period THEN calculateSMA(p, Len(p))
    ELSE Once(calculateSMA(FirstN(p, period), period), LAMBDA sma :
           EMARange(p, R(2, period + 1), period + 1, Len(p), sma)))

\* body of the first loop of calculateRSI (change = prices[i] - prices[i-1])
RSIInitStep(prices, acc, i) ==
  Once(RSub(prices[i], prices[i - 1]), LAMBDA change :
    IF RGe(change, I(0))
    THEN [gains |-> RAdd(acc.gains, change), losses |-> acc.losses]
    ELSE [gains |-> acc.gains, losses |-> RSub(acc.losses, change)])

\* body of the second loop of calculateRSI (Wilder smoothing)
RSISmoothStep(prices, period, avg, i) ==
  Once(RSub(prices[i], prices[i - 1]), LAMBDA change :
    [gain |-> RDiv(RAdd(RMul(avg.gain, I(period - 1)),
                        IF RGt(change, I(0)) THEN change ELSE I(0)), I(period)),
     loss |-> RDiv(RAdd(RMul(avg.loss, I(period - 1)),
                        IF RLt(change, I(0)) THEN RNeg(change) ELSE I(0)), I(period))])

RECURSIVE RSIInitRange(_, _, _, _)
RSIInitRange(prices, lo, hi, acc) ==
  IF lo > hi THEN acc
  ELSE IF lo = hi THEN RSIInitStep(prices, acc, lo)
  ELSE Once(RSIInitRange(prices, lo, (lo + hi) \div 2, acc),
            LAMBDA left : RSIInitRange(prices, (lo + hi) \div 2 + 1, hi, left))

RECURSIVE RSISmoothRange(_, _, _, _, _)
RSISmoothRange(prices, period, lo, hi, avg) ==
  IF lo > hi THEN avg
  ELSE IF lo = hi THEN RSISmoothStep(prices, period, avg, lo)
  ELSE Once(RSISmoothRange(prices, period, lo, (lo + hi) \div 2, avg),
            LAMBDA left : RSISmoothRange(prices, period, (lo + hi) \div 2 + 1, hi, left))

calculateRSI(prices, period) ==
  Once(prices, LAMBDA p :
    IF Len(p) <= period THEN I(50)
    ELSE Once(RSIInitRange(p, 2, period + 1, [gains |-> I(0), losses |-> I(0)]),
           LAMBDA init :
      Once(RSISmoothRange(p, period, period + 2, Len(p),
             [gain |-> RDiv(init.gains, I(period)),
              loss |-> RDiv(init.losses, I(period))]), LAMBDA avg :
        IF avg.loss = I(0) THEN I(100)
        ELSE RSub(I(100), RDiv(I(100), RAdd(I(1), RDiv(avg.gain, avg.loss)))))))

\* macdValues of calculateMACD: EMA12 - EMA26 of prices.slice(0, i+1) for the
\* last (at most 9) positions; first is the 1-based length of the first slice
MACDValues(prices, first) ==
  [k \in 1..(Len(prices) - first + 1) |->
     Once(FirstN(prices, first + k - 1), LAMBDA slice :
       RSub(calculateEMA(slice, 12), calculateEMA(slice, 26)))] \o << >>

calculateMACD(prices) ==
  Once(prices, LAMBDA p :
    IF Len(p) < 26
    THEN [macdLine |-> I(0), signalLine |-> I(0), histogram |-> I(0)]
    ELSE Once(RSub(calculateEMA(p, 12), calculateEMA(p, 26)), LAMBDA macdLine :
      Once(MACDValues(p, (IF Len(p) - 9 > 0 THEN Len(p) - 9 ELSE 0) + 1),
           LAMBDA macdValues :
        Once(calculateEMA(macdValues, IF Len(macdValues) < 9 THEN Len(macdValues) ELSE 9),
             LAMBDA signalLine :
          [macdLine |-> macdLine, signalLine |-> signalLine,
           histogram |-> RSub(macdLine, signalLine)]))))

RECURSIVE SumSqDevRange(_, _, _, _, _)
\* for (i = lo; i <= hi; i++) sum = sum + (s[i] - mean) * (s[i] - mean)
SumSqDevRange(s, mean, lo, hi, sum) ==
  IF lo > hi THEN sum
  ELSE IF lo = hi
  THEN Once(RSub(s[lo], mean), LAMBDA deviation : RAdd(sum, RMul(deviation, deviation)))
  ELSE Once(SumSqDevRange(s, mean, lo, (lo + hi) \div 2, sum),
            LAMBDA left : SumSqDevRange(s, mean, (lo + hi) \div 2 + 1, hi, left))

\* s.reduce((sum, x) => sum + (x - mean) * (x - mean), 0) over the first k elements
SumSqDev(s, k, mean) == SumSqDevRange(s, mean, 1, k, I(0))

calculateBollingerBands(prices, period, stdDevMultiplier) ==
  Once(prices, LAMBDA p :
    IF Len(p) < period
    THEN Once(RDiv(SumSeq(p, Len(p)), I(Len(p))), LAMBDA avg :
           [upper |-> RMul(avg, R(11, 10)), middle |-> avg,
            lower |-> RMul(avg, R(9, 10))])
    ELSE Once(calculateSMA(p, period), LAMBDA middle :
      Once(RSqrt(RDiv(SumSqDev(LastN(p, period), period, middle), I(period))),
           LAMBDA stdDev :
        [upper  |-> RAdd(middle, RMul(stdDev, I(stdDevMultiplier))),
         middle |-> middle,
         lower  |-> RSub(middle, RMul(stdDev, I(stdDevMultiplier)))])))

\* returns[i] = prices[i] / prices[i-1] - 1
Returns(prices) ==
  [i \in 1..(Len(prices) - 1) |-> RSub(RDiv(prices[i + 1], prices[i]), I(1))] \o << >>

calculateVolatility(prices, period) ==
  Once(prices, LAMBDA p :
    IF Len(p) < period + 1 THEN R(2, 100)
    ELSE Once(LastN(Returns(LastN(p, period + 1)), period), LAMBDA recentReturns :
      Once(RDiv(SumSeq(recentReturns, Len(recentReturns)), I(period)), LAMBDA mean :
        RSqrt(RDiv(SumSqDev(recentReturns, Len(recentReturns), mean), I(period))))))

(***************************************************************************)
(* State encoder.                                                          *)
(***************************************************************************)
createStateRepresentation(priceHistory) ==
  Once(priceHistory, LAMBDA closePrices :
    IF Len(closePrices) < 14 THEN "insufficient_data"
    ELSE Once(calculateRSI(closePrices, 14), LAMBDA rsi :
      Once(calculateSMA(closePrices,
             IF Len(closePrices) < 50 THEN Len(closePrices) ELSE 50), LAMBDA sma50 :
        Once(calculateVolatility(closePrices, 10), LAMBDA volatility :
          LET currentPrice == closePrices[Len(closePrices)]
              priceLevel   == IF RGt(currentPrice, sma50) THEN "above_sma50"
                              ELSE "below_sma50"
              rsiLevel     == IF RLt(rsi, I(30)) THEN "oversold"
                              ELSE IF RGt(rsi, I(70)) THEN "overbought" ELSE "neutral"
              volatilityLevel == IF RLt(volatility, R(1, 100)) THEN "low"
                                 ELSE IF RGt(volatility, R(3, 100)) THEN "high"
                                 ELSE "medium"
          IN  priceLevel \o "_" \o rsiLevel \o "_" \o volatilityLevel))))

(***************************************************************************)
(* Rule-based strategies.  A TradingDecision is the record                 *)
(* [signal, confidence, reason, indicatorsUsed]; the figure that the RSI   *)
(* strategy interpolates into its reason (rsi.toFixed(2)) is left out of   *)
(* the reason text.                                                        *)
(***************************************************************************)
Decision(signal, confidence, reason, indicatorsUsed) ==
  [signal |-> signal, confidence |-> confidence, reason |-> reason,
   indicatorsUsed |-> indicatorsUsed]

movingAverageStrategy(priceHistory) ==
  Once(priceHistory, LAMBDA closePrices :
    IF Len(closePrices) < 50
    THEN Decision("HOLD", I(50), "Insufficient historical data for MA strategy", <<"SMA">>)
    ELSE Once(calculateSMA(closePrices, 10), LAMBDA sma10 :
      Once(calculateSMA(closePrices, 50), LAMBDA sma50 :
        Once(calculateSMA(DropLast(closePrices, 1), 10), LAMBDA prevSma10 :
          Once(calculateSMA(DropLast(closePrices, 1), 50), LAMBDA prevSma50 :
            IF RLe(prevSma10, prevSma50) /\ RGt(sma10, sma50)
            THEN Decision("BUY", I(75), "Short-term MA crossed above long-term MA",
                          <<"SMA10", "SMA50">>)
            ELSE IF RGe(prevSma10, prevSma50) /\ RLt(sma10, sma50)
            THEN Decision("SELL", I(75), "Short-term MA crossed below long-term MA",
                          <<"SMA10", "SMA50">>)
            ELSE Once(RMul(RDiv(RAbs(RSub(sma10, sma50)), sma50), I(100)),
                      LAMBDA trendStrength :
                   LET isBullish == RGt(sma10, sma50)
                   IN  Decision("HOLD",
                         RAdd(I(50),
                              RMul(trendStrength, IF isBullish THEN I(1) ELSE I(-1))),
                         IF isBullish THEN "Trending upward but no crossover detected"
                                      ELSE "Trending downward but no crossover detected",
                         <<"SMA10", "SMA50">>)))))))

\* rsiStrategy with the gate at 14 bars
rsiStrategy_gate14(priceHistory) ==
  IF Len(priceHistory) < 14
  THEN Decision("HOLD", I(50), "Insufficient historical data for RSI strategy", <<"RSI">>)
  ELSE Decision("HOLD", RAdd(I(50), RAbs(RSub(calculateRSI(priceHistory, 14), I(50)))),
                "RSI is neutral", <<"RSI">>)

rsiStrategy(priceHistory) ==
  Once(priceHistory, LAMBDA closePrices :
    IF Len(closePrices) < 15
    THEN Decision("HOLD", I(50), "Insufficient historical data for RSI strategy",
                  <<"RSI">>)
    ELSE Once(calculateRSI(closePrices, 14), LAMBDA rsi :
           IF RLt(rsi, I(30))
           THEN Decision("BUY", RMax(I(70), RSub(I(100), rsi)), "RSI is oversold",
                         <<"RSI">>)
           ELSE IF RGt(rsi, I(70))
           THEN Decision("SELL", RMax(I(70), rsi), "RSI is overbought", <<"RSI">>)
           ELSE Decision("HOLD", RAdd(I(50), RAbs(RSub(rsi, I(50)))), "RSI is neutral",
                         <<"RSI">>)))

macdStrategy(priceHistory) ==
  Once(priceHistory, LAMBDA closePrices :
    IF Len(closePrices) < 35
    THEN Decision("HOLD", I(50), "Insufficient historical data for MACD strategy",
                  <<"MACD">>)
    ELSE Once(calculateMACD(closePrices), LAMBDA macd :
      Once(calculateMACD(DropLast(closePrices, 1)).histogram, LAMBDA prevHistogram :
        LET histogram  == macd.histogram
            signalLine == macd.signalLine
        IN  IF RLe(prevHistogram, I(0)) /\ RGt(histogram, I(0))
            THEN Decision("BUY", I(80),
                          "MACD histogram turned positive (bullish crossover)",
                          <<"MACD", "Signal Line", "Histogram">>)
            ELSE IF RGe(prevHistogram, I(0)) /\ RLt(histogram, I(0))
            THEN Decision("SELL", I(80),
                          "MACD histogram turned negative (bearish crossover)",
                          <<"MACD", "Signal Line", "Histogram">>)
            ELSE Once(RMul(RAbs(RDiv(histogram, signalLine)), I(100)),
                      LAMBDA trendStrength :
                   LET isBullish == RGt(histogram, I(0))
                   IN  Decision("HOLD",
                         RAdd(I(50),
                              RMul(IF RGt(trendStrength, I(10)) THEN I(10)
                                   ELSE trendStrength,
                                   IF isBullish THEN I(1) ELSE I(-1))),
                         IF isBullish
                         THEN "MACD trending bullish but no crossover detected"
                         ELSE "MACD trending bearish but no crossover detected",
                         <<"MACD", "Signal Line", "Histogram">>)))))

\* (upper - lower) / middle * 100
BandWidth(bands) == RMul(RDiv(RSub(bands.upper, bands.lower), bands.middle), I(100))

bollingerBandsStrategy(priceHistory) ==
  Once(priceHistory, LAMBDA closePrices :
    IF Len(closePrices) < 20
    THEN Decision("HOLD", I(50),
                  "Insufficient historical data for Bollinger Bands strategy",
                  <<"Bollinger Bands">>)
    ELSE Once(calculateBollingerBands(closePrices, 20, 2), LAMBDA bands :
      LET currentPrice == closePrices[Len(closePrices)]
          upper        == bands.upper
          lower        == bands.lower
      IN  IF RLt(currentPrice, lower)
          THEN Decision("BUY",
                 RMin(I(90), RAdd(I(70), RMul(RDiv(RSub(lower, currentPrice), lower),
                                              I(100)))),
                 "Price below lower Bollinger Band (oversold)",
                 <<"Bollinger Bands", "%B">>)
          ELSE IF RGt(currentPrice, upper)
          THEN Decision("SELL",
                 RMin(I(90), RAdd(I(70), RMul(RDiv(RSub(currentPrice, upper), upper),
                                              I(100)))),
                 "Price above upper Bollinger Band (overbought)",
                 <<"Bollinger Bands", "%B">>)
          ELSE Once(BandWidth(bands), LAMBDA bandWidth :
            Once(BandWidth(calculateBollingerBands(DropLast(closePrices, 5), 20, 2)),
                 LAMBDA prevBandWidth :
              Once(RDiv(RSub(currentPrice, lower), RSub(upper, lower)), LAMBDA percentB :
                IF RLt(bandWidth, prevBandWidth) /\ RLt(bandWidth, I(2))
                THEN Decision("HOLD", I(65),
                       "Bollinger Band squeeze detected - preparing for breakout",
                       <<"Bollinger Bands", "Band Width">>)
                ELSE IF RGt(percentB, R(8, 10))
                THEN Decision("HOLD", I(60),
                       "Price near upper Bollinger Band but not overbought yet",
                       <<"Bollinger Bands", "%B">>)
                ELSE IF RLt(percentB, R(2, 10))
                THEN Decision("HOLD", I(60),
                       "Price near lower Bollinger Band but not oversold yet",
                       <<"Bollinger Bands", "%B">>)
                ELSE Decision("HOLD", I(50), "Price within normal Bollinger Band range",
                       <<"Bollinger Bands", "%B">>))))))

(***************************************************************************)
(* Price histories.  generateHistoricalData(stockId, 180) pushes one bar   *)
(* for each i = days .. 0; each close is the previous one times            *)
(* 1 + (Math.random() * 2 - 1) * volatility + trend, never below half the  *)
(* base price.  Only the close of a bar is read by the bot, so a history   *)
(* is the sequence of its closes.                                          *)
(***************************************************************************)
HistoryDays == 180

GeneratorParams ==
  (6 :> [basePrice |-> I(120), volatility |-> R(25, 1000), trend |-> R(3, 10000)])

\* closes is a sequence generateHistoricalData(stockId, HistoryDays) can produce
CanGenerate(stockId, closes) ==
  LET g == GeneratorParams[stockId]
  IN  /\ Len(closes) = HistoryDays + 1
      /\ \A i \in 1..Len(closes) :
           LET before == IF i = 1 THEN g.basePrice ELSE closes[i - 1]
               lowest == RMul(before, RAdd(RSub(I(1), g.volatility), g.trend))
               above  == RMul(before, RAdd(RAdd(I(1), g.volatility), g.trend))
           IN  /\ RGe(closes[i], RMax(lowest, RMul(g.basePrice, R(5, 10))))
               /\ \/ RLt(closes[i], above)
                  \/ closes[i] = RMul(g.basePrice, R(5, 10))

\* the closes c, ..., c followed by tail
FlatThen(c, len, tail) == [i \in 1..(len - Len(tail)) |-> I(c)] \o tail

HistoryTails == { <<I(123), I(123)>>, <<I(118), I(117)>> }

GeneratedHistories ==
  { h \in { FlatThen(120, HistoryDays + 1, tail) : tail \in HistoryTails } :
      CanGenerate(6, h) }

\* tails after which rsiStrategy and macdStrategy give SELL and HOLD, BUY and
\* SELL, SELL and BUY, BUY and HOLD, HOLD and HOLD
EnsembleTails ==
  { << >>, <<I(118)>>, <<I(123)>>, <<I(118), I(117)>>, <<I(118), I(120)>> }

EnsembleHistories ==
  { h \in { FlatThen(120, HistoryDays + 1, tail) : tail \in EnsembleTails } :
      CanGenerate(6, h) }

TabulatedHistories == GeneratedHistories \cup EnsembleHistories

(***************************************************************************)
(* A history is fixed when the bot is constructed, so what the four        *)
(* rule-based strategies and the state encoder derive from a generated     *)
(* history is tabulated once; any other history is computed on the spot.   *)
(***************************************************************************)
RuleStrategies == {"MOVING_AVERAGE", "RSI", "MACD", "BOLLINGER"}

RuleDecision(strategy, priceHistory) ==
  CASE strategy = "MOVING_AVERAGE" -> movingAverageStrategy(priceHistory)
    [] strategy = "RSI"            -> rsiStrategy(priceHistory)
    [] strategy = "MACD"           -> macdStrategy(priceHistory)
    [] strategy = "BOLLINGER"      -> bollingerBandsStrategy(priceHistory)

RuleTable ==
  [h \in TabulatedHistories |-> [strategy \in RuleStrategies |-> RuleDecision(strategy, h)]]

StateTable == [h \in TabulatedHistories |-> createStateRepresentation(h)]

RuleResult(strategy, priceHistory) ==
  IF priceHistory \in TabulatedHistories THEN RuleTable[priceHistory][strategy]
  ELSE RuleDecision(strategy, priceHistory)

StateLabel(priceHistory) ==
  IF priceHistory \in TabulatedHistories THEN StateTable[priceHistory]
  ELSE createStateRepresentation(priceHistory)

(***************************************************************************)
(* Q-learning strategy.  qTable is the Map qValues: a function from the    *)
(* keys `${state}:${action}` that have been set to their numbers.          *)
(***************************************************************************)
Actions == <<"BUY", "SELL", "HOLD">>

StateAction(state, action) == state \o ":" \o action

\* this.qValues.get(stateAction) || 0 : absent, 0 and NaN all read as 0
QGet(qTable, stateAction) ==
  IF stateAction \in DOMAIN qTable /\ ~IsNaN(qTable[stateAction])
  THEN qTable[stateAction] ELSE I(0)

\* a table that keeps the entry just set and drops the others
QSet_onlyLatest(qTable, stateAction, newQValue) ==
  [key \in {stateAction} |-> newQValue]

\* this.qValues.set(stateAction, newQValue)
QSet(qTable, stateAction, newQValue) ==
  [key \in (DOMAIN qTable) \cup {stateAction} |->
     IF key = stateAction THEN newQValue ELSE qTable[key]]

\* actionValues is the triple of numbers in the order of Actions
calculateActionDifference(actionValues) ==
  LET maxValue == RMax(actionValues[1], RMax(actionValues[2], actionValues[3]))
      other(v) == IF v # maxValue THEN v ELSE I(0)
      othersSum == RAdd(RAdd(RAdd(I(0), other(actionValues[1])), other(actionValues[2])),
                        other(actionValues[3]))
      othersAvg == RDiv(othersSum, I(2))
  IN  IF actionValues[2] = actionValues[1] /\ actionValues[3] = actionValues[1]
      THEN I(0)
      ELSE RMin(I(1), RMax(I(0), RSub(maxValue, othersAvg)))

\* the loop with "qValue >= maxQValue": the last of the largest values wins
RECURSIVE BestAction_lastLargest(_, _, _)
BestAction_lastLargest(qTable, state, i) ==
  IF i = 0 THEN [bestAction |-> "HOLD", maxQValue |-> NegInfinity]
  ELSE LET before == BestAction_lastLargest(qTable, state, i - 1)
           qValue == QGet(qTable, StateAction(state, Actions[i]))
       IN  IF RGe(qValue, before.maxQValue)
           THEN [bestAction |-> Actions[i], maxQValue |-> qValue]
           ELSE before

\* the loop started from maxQValue = 0: a value must be positive to be chosen
RECURSIVE BestAction_fromZero(_, _, _)
BestAction_fromZero(qTable, state, i) ==
  IF i = 0 THEN [bestAction |-> "HOLD", maxQValue |-> I(0)]
  ELSE LET before == BestAction_fromZero(qTable, state, i - 1)
           qValue == QGet(qTable, StateAction(state, Actions[i]))
       IN  IF RGt(qValue, before.maxQValue)
           THEN [bestAction |-> Actions[i], maxQValue |-> qValue]
           ELSE before

\* the loop "for (const action of actions)" after i passes: [bestAction, maxQValue]
RECURSIVE BestAction(_, _, _)
BestAction(qTable, state, i) ==
  IF i = 0 THEN [bestAction |-> "HOLD", maxQValue |-> NegInfinity]
  ELSE LET before == BestAction(qTable, state, i - 1)
           qValue == QGet(qTable, StateAction(state, Actions[i]))
       IN  IF RGt(qValue, before.maxQValue)
           THEN [bestAction |-> Actions[i], maxQValue |-> qValue]
           ELSE before

\* Math.floor of a non-negative number
Floor(v) == v.n \div v.d

\* actionValues[action] = qValue, in the order of Actions
ActionValues(qTable, state) ==
  [i \in 1..3 |-> QGet(qTable, StateAction(state, Actions[i]))] \o << >>

\* const confidenceScore = Math.min(95, 50 + actionDiff * 30)
ConfidenceScore(actionValues) ==
  RMin(I(95), RAdd(I(50), RMul(calculateActionDifference(actionValues), I(30))))

\* a blend that names RSI whenever one indicator agrees
Ensemble_namesRsi(bestAction, confidenceScore, rsiResult, macdResult) ==
  IF bestAction = rsiResult.signal /\ bestAction = macdResult.signal
  THEN Decision(bestAction, RMin(I(95), RAdd(confidenceScore, I(15))),
                "Multiple indicators confirm the signal",
                <<"Reinforcement Learning", "RSI", "MACD">>)
  ELSE IF bestAction = rsiResult.signal \/ bestAction = macdResult.signal
  THEN Decision(bestAction, RMin(I(90), RAdd(confidenceScore, I(5))),
                "Signal confirmed by one additional indicator",
                <<"Reinforcement Learning", "RSI">>)
  ELSE Decision(bestAction, confidenceScore,
                "Decision based on RL model learning from historical patterns",
                <<"Reinforcement Learning", "Q-Learning">>)

\* the blend of the learned action with the decisions of rsiStrategy and
\* macdStrategy
Ensemble(bestAction, confidenceScore, rsiResult, macdResult) ==
  IF bestAction = rsiResult.signal /\ bestAction = macdResult.signal
  THEN Decision(bestAction, RMin(I(95), RAdd(confidenceScore, I(15))),
                "Multiple indicators confirm the signal",
                <<"Reinforcement Learning", "RSI", "MACD">>)
  ELSE IF bestAction = rsiResult.signal \/ bestAction = macdResult.signal
  THEN Decision(bestAction, RMin(I(90), RAdd(confidenceScore, I(5))),
                "Signal confirmed by one additional indicator",
                <<"Reinforcement Learning",
                  IF bestAction = rsiResult.signal THEN "RSI" ELSE "MACD">>)
  ELSE Decision(bestAction, confidenceScore,
                "Decision based on RL model learning from historical patterns",
                <<"Reinforcement Learning", "Q-Learning">>)

\* the exploitation branch: the action with the highest Q-value, blended with
\* rsiStrategy and macdStrategy
ExploitationDecision(priceHistory, qTable) ==
  Once(StateLabel(priceHistory), LAMBDA state :
    Once(RuleResult("RSI", priceHistory), LAMBDA rsiResult :
      Once(RuleResult("MACD", priceHistory), LAMBDA macdResult :
        Once(ConfidenceScore(ActionValues(qTable, state)), LAMBDA confidenceScore :
          Ensemble(BestAction(qTable, state, 3).bestAction, confidenceScore,
                   rsiResult, macdResult)))))

\* exploration whenever the draw is at or below the exploration rate
reinforcementLearningStrategy_exploreAtRate(priceHistory, qTable, epsilon, random1, random2) ==
  IF Len(priceHistory) < 30
  THEN Decision("HOLD", I(50), "Insufficient historical data for RL strategy",
                <<"Reinforcement Learning">>)
  ELSE IF RLe(random1, epsilon)
  THEN Decision(Actions[Floor(RMul(random2, I(3))) + 1], I(50),
                "Exploration phase - trying new action",
                <<"Reinforcement Learning", "Q-Learning">>)
  ELSE ExploitationDecision(priceHistory, qTable)

\* random1 and random2 are the two values Math.random() returns, in order
reinforcementLearningStrategy(priceHistory, qTable, epsilon, random1, random2) ==
  IF Len(priceHistory) < 30
  THEN Decision("HOLD", I(50), "Insufficient historical data for RL strategy",
                <<"Reinforcement Learning">>)
  ELSE IF RLt(random1, epsilon)
  THEN Decision(Actions[Floor(RMul(random2, I(3))) + 1], I(50),
                "Exploration phase - trying new action",
                <<"Reinforcement Learning", "Q-Learning">>)
  ELSE ExploitationDecision(priceHistory, qTable)

(***************************************************************************)
(* Q-update of executeTrade.                                               *)
(***************************************************************************)
\* a HOLD that is rewarded whatever the price did
Reward_holdPays(action, priceChange) ==
  IF action = "BUY" /\ RGt(priceChange, I(0)) THEN RMul(priceChange, I(100))
  ELSE IF action = "SELL" /\ RLt(priceChange, I(0)) THEN RMul(RAbs(priceChange), I(100))
  ELSE IF action = "HOLD" THEN I(1)
  ELSE RMul(RNeg(RAbs(priceChange)), I(50))

\* the reward rules of updateQValues
Reward(action, priceChange) ==
  IF action = "BUY" /\ RGt(priceChange, I(0)) THEN RMul(priceChange, I(100))
  ELSE IF action = "SELL" /\ RLt(priceChange, I(0)) THEN RMul(RAbs(priceChange), I(100))
  ELSE IF action = "HOLD" /\ RLt(RAbs(priceChange), R(1, 100)) THEN I(1)
  ELSE RMul(RNeg(RAbs(priceChange)), I(50))

\* const newQValue = oldQValue + this.learningRate * (reward - oldQValue)
NewQValue(oldQValue, alpha, reward) ==
  RAdd(oldQValue, RMul(alpha, RSub(reward, oldQValue)))

\* an update that derives its state from the last 13 closes only
updateQValues_ownWindow(qTable, alpha, stock, action, currentPrice) ==
  IF Len(stock) < 2 THEN qTable
  ELSE Once(StateAction(createStateRepresentation(LastN(stock, 13)), action),
            LAMBDA stateAction :
         LET prevPrice   == stock[Len(stock) - 1]
             priceChange == RDiv(RSub(currentPrice, prevPrice), prevPrice)
             reward      == Reward(action, priceChange)
             oldQValue   == QGet(qTable, stateAction)
         IN  QSet(qTable, stateAction, NewQValue(oldQValue, alpha, reward)))

\* the Map qValues after updateQValues(stockId, action, currentPrice) on history stock
updateQValues(qTable, alpha, stock, action, currentPrice) ==
  IF Len(stock) < 2 THEN qTable
  ELSE Once(StateAction(StateLabel(stock), action), LAMBDA stateAction :
         LET prevPrice   == stock[Len(stock) - 1]
             priceChange == RDiv(RSub(currentPrice, prevPrice), prevPrice)
             reward      == Reward(action, priceChange)
             oldQValue   == QGet(qTable, stateAction)
         IN  QSet(qTable, stateAction, NewQValue(oldQValue, alpha, reward)))

(***************************************************************************)
(* State of the server process: the fields of the TradingBot singleton,    *)
(* the trading-history ledger of MemStorage, `last`, which records the     *)
(* most recent request and what it returned, and `inFlight`, the calls of  *)
(* executeTrade that are suspended at an await or have returned, with      *)
(* their arguments and locals.                                             *)
(***************************************************************************)
VARIABLES botActive, currentStrategy, learningRate, explorationRate, qValues,
          historicalData, tradingHistory, last, inFlight

vars == <<botActive, currentStrategy, learningRate, explorationRate, qValues,
          historicalData, tradingHistory, last, inFlight>>

\* an optional argument or field that is absent
Undefined == [undefined |-> TRUE]

Strategies == {"MOVING_AVERAGE", "RSI", "MACD", "BOLLINGER", "REINFORCEMENT_LEARNING"}

(***************************************************************************)
(* MemStorage.  Of the six demo stocks the model keeps Tata Steel (id 6);  *)
(* no request creates or updates a stock, so the stocks map is constant.   *)
(***************************************************************************)
demoStocks == (6 :> [id |-> 6, symbol |-> "TATASTEEL", currentPrice |-> R(12345, 100)])

\* a lookup that answers every id
getStock_anyId(stockId) ==
  [id |-> stockId, symbol |-> "UNKNOWN", currentPrice |-> I(100)]

\* this.stocks.get(id)
getStock(stockId) ==
  IF stockId \in DOMAIN demoStocks THEN demoStocks[stockId] ELSE Undefined

TradeEntry(id, userId, stockId, action, quantity, price, profitLoss) ==
  [id |-> id, userId |-> userId, stockId |-> stockId, action |-> action,
   quantity |-> quantity, price |-> price, profitLoss |-> profitLoss]

\* the four demo records; the ledger is kept in insertion order
demoTradingHistory ==
  << TradeEntry(1, 1, 2, "BUY",   50, R(243765, 100), I(3240)),
     TradeEntry(2, 1, 3, "SELL", 100, R(167230, 100), I(-1120)),
     TradeEntry(3, 1, 4, "BUY",   75, R(149575, 100), I(2680)),
     TradeEntry(4, 1, 6, "BUY",  200, R(12345, 100),  I(1850)) >>

\* an id that is not advanced: each new entry is set under the id of the one
\* before it and replaces it
createTradingHistory_sameId(ledger, userId, stockId, action, quantity, price, profitLoss) ==
  IF Len(ledger) > Len(demoTradingHistory)
  THEN [ledger EXCEPT ![Len(ledger)] =
          TradeEntry(Len(ledger), userId, stockId, action, quantity, price, profitLoss)]
  ELSE Append(ledger, TradeEntry(Len(ledger) + 1, userId, stockId, action, quantity, price,
                                 profitLoss))

\* currentIds.tradingHistory++ and tradingHistory.set(id, { ...entry, id })
createTradingHistory(ledger, userId, stockId, action, quantity, price, profitLoss) ==
  Append(ledger, TradeEntry(Len(ledger) + 1, userId, stockId, action, quantity, price,
                            profitLoss))

\* the entries of a user.  The method also sorts them, newest first; the order
\* is left out, the sums and counts taken of the result do not depend on it.
getTradingHistoryByUserId(ledger, userId) ==
  SelectSeq(ledger, LAMBDA entry : entry.userId = userId)

\* this.historicalData.get(stockId) || []
getHistoricalPriceData(stockId) ==
  IF stockId \in DOMAIN historicalData THEN historicalData[stockId] ELSE << >>

(***************************************************************************)
(* Methods of the TradingBot singleton.                                    *)
(***************************************************************************)
\* a switch that only turns the bot on
toggleBotStatus_on(active) == TRUE

\* this.botActive = !this.botActive
toggleBotStatus(active) == ~active

\* a handler that checks nothing
IsValidStrategy_any(strategy) == TRUE

\* the check of POST /api/trading-bot/strategy before it calls setStrategy
IsValidStrategy(strategy) ==
  strategy \in {"MOVING_AVERAGE", "RSI", "MACD", "BOLLINGER", "REINFORCEMENT_LEARNING"}

\* a string of the JSON body of a request
JsonString(s) == [string |-> s]

\* the conversion Math.min and Math.max apply to an argument: a number is
\* itself, the empty string is 0 and a string that is no numeral is NaN
\* (strings that are numerals are not among the arguments of the requests)
ToNumber(v) ==
  IF "string" \in DOMAIN v THEN (IF v.string = "" THEN I(0) ELSE NaN) ELSE v

\* Math.max(0.001, Math.min(0.1, learningRate)) when the argument is given
ClampLearningRate(stored, given) ==
  IF given # Undefined THEN RMax(R(1, 1000), RMin(R(1, 10), ToNumber(given))) ELSE stored

\* Math.max(0.01, Math.min(0.3, explorationRate)) when the argument is given
ClampExplorationRate(stored, given) ==
  IF given # Undefined THEN RMax(R(1, 100), RMin(R(3, 10), ToNumber(given))) ELSE stored

\* the answer of a strategy below its gate
StockNotFound_insufficient ==
  Decision("HOLD", I(50), "Insufficient historical data for RL strategy",
           <<"Reinforcement Learning">>)

\* the decision returned when storage.getStock(stockId) is undefined
StockNotFound == Decision("HOLD", I(0), "Stock not found", << >>)

\* a switch that takes its default branch for every name
StrategyDecision_defaultOnly(strategy, priceHistory, qTable, epsilon, random1, random2) ==
  reinforcementLearningStrategy(priceHistory, qTable, epsilon, random1, random2)

\* the switch of generateTradingDecision on a strategy name
StrategyDecision(strategy, priceHistory, qTable, epsilon, random1, random2) ==
  CASE strategy \in RuleStrategies -> RuleResult(strategy, priceHistory)
    [] OTHER -> reinforcementLearningStrategy(priceHistory, qTable, epsilon,
                                              random1, random2)

generateTradingDecision(stockId, random1, random2) ==
  IF getStock(stockId) = Undefined THEN StockNotFound
  ELSE StrategyDecision(currentStrategy, getHistoricalPriceData(stockId), qValues,
                        explorationRate, random1, random2)

\* trade.profitLoss || 0
ProfitLossOrZero(trade) ==
  IF trade.profitLoss = Undefined \/ IsNaN(trade.profitLoss) THEN I(0)
  ELSE trade.profitLoss

\* trade.profitLoss !== undefined && trade.profitLoss !== null && trade.profitLoss > 0
IsSuccessfulTrade(trade) ==
  trade.profitLoss # Undefined /\ RGt(trade.profitLoss, I(0))

\* ... && trade.profitLoss <= 0
IsFailedTrade(trade) ==
  trade.profitLoss # Undefined /\ RLe(trade.profitLoss, I(0))

\* trades.reduce((sum, trade) => sum + term(trade), 0)
SumOver(trades, term(_)) ==
  IF Len(trades) = 0 THEN I(0)
  ELSE SumSeq([i \in 1..Len(trades) |-> term(trades[i])] \o << >>, Len(trades))

calculateTotalReturnPercentage(totalProfitLoss, trades) ==
  IF Len(trades) = 0 THEN I(0)
  ELSE Once(SumOver(SelectSeq(trades, LAMBDA trade : trade.action = "BUY"),
                    LAMBDA trade : RMul(trade.price, I(trade.quantity))),
            LAMBDA totalInvestment :
              IF totalInvestment = I(0) THEN I(0)
              ELSE RMul(RDiv(totalProfitLoss, totalInvestment), I(100)))

\* the report of getPerformanceMetrics but for performanceTimeline, thirty-one
\* random points that do not depend on the ledger.  userId is the user of the
\* request (req.user.id), which the method is not given: it reads the
\* entries of user 1.
getPerformanceMetrics(ledger, userId) ==
  Once(getTradingHistoryByUserId(ledger, 1), LAMBDA trades :
    Once(Len(SelectSeq(trades, IsSuccessfulTrade)), LAMBDA successfulTrades :
      Once(SumOver(trades, ProfitLossOrZero), LAMBDA totalProfitLoss :
        [totalReturn |-> totalProfitLoss,
         totalReturnPercentage |-> calculateTotalReturnPercentage(totalProfitLoss, trades),
         winRate |-> IF successfulTrades > 0
                     THEN RMul(R(successfulTrades, Len(trades)), I(100)) ELSE I(0),
         totalTrades |-> Len(trades),
         successfulTrades |-> successfulTrades,
         failedTrades |-> Len(SelectSeq(trades, IsFailedTrade)),
         averageHoldingPeriod |-> I(5)])))

\* profitLoss: action === "SELL" ? (quantity * stock.currentPrice * 0.03) : undefined
TradeProfitLoss(action, quantity, currentPrice) ==
  IF action = "SELL" THEN RMul(RMul(I(quantity), currentPrice), R(3, 100)) ELSE Undefined

\* a bot that never counts as inactive
BotInactive_never(active) == FALSE

\* if (!this.botActive) return false
BotInactive(active) == ~active

\* a trade that updates the Q-values only while the Q-learning strategy is selected
executeTrade_learningOnly(userId, stockId, action, quantity) ==
  LET stock == getStock(stockId)
  IN  IF BotInactive(botActive) \/ stock = Undefined
      THEN [result |-> FALSE, tradingHistory |-> tradingHistory, qValues |-> qValues]
      ELSE [result |-> TRUE,
            tradingHistory |->
              createTradingHistory(tradingHistory, userId, stockId, action, quantity,
                stock.currentPrice, TradeProfitLoss(action, quantity, stock.currentPrice)),
            qValues |->
              IF currentStrategy = "REINFORCEMENT_LEARNING"
              THEN updateQValues(qValues, learningRate, getHistoricalPriceData(stockId),
                                 action, stock.currentPrice)
              ELSE qValues]

\* what executeTrade returns, and the ledger and the Map qValues it leaves
executeTrade(userId, stockId, action, quantity) ==
  LET stock == getStock(stockId)
  IN  IF BotInactive(botActive) \/ stock = Undefined
      THEN [result |-> FALSE, tradingHistory |-> tradingHistory, qValues |-> qValues]
      ELSE [result |-> TRUE,
            tradingHistory |->
              createTradingHistory(tradingHistory, userId, stockId, action, quantity,
                stock.currentPrice, TradeProfitLoss(action, quantity, stock.currentPrice)),
            qValues |->
              updateQValues(qValues, learningRate, getHistoricalPriceData(stockId),
                            action, stock.currentPrice)]

(***************************************************************************)
(* Requests.                                                               *)
(***************************************************************************)
MaxTrades == 2

UserIds == {1}

StockIds == {6, 7}

Quantities == {10}

\* req.body.strategy
StrategyNames == {"MACD", "BOGUS"}

\* req.body.learningRate: absent, a number, a string
LearningRates == {Undefined, I(5), JsonString("fast")}

\* req.body.explorationRate
ExplorationRates == {Undefined}

\* values of Math.random(): the draw against epsilon, and the draw of the action
ExploreDraws == {I(0), R(1, 2)}

ActionDraws == {I(0), R(1, 2), R(9, 10)}

Init ==
  /\ botActive = TRUE
  /\ currentStrategy = "REINFORCEMENT_LEARNING"
  /\ learningRate = R(1, 100)
  /\ explorationRate = R(1, 10)
  /\ qValues = [key \in {} |-> I(0)]
  /\ historicalData \in [DOMAIN GeneratorParams -> GeneratedHistories]
  /\ tradingHistory = demoTradingHistory
  /\ last = [op |-> "constructor"]
  /\ inFlight = << >>

\* POST /api/trading-bot/toggle
Toggle ==
  /\ botActive' = toggleBotStatus(botActive)
  /\ last' = [op |-> "toggleBotStatus", was |-> botActive, result |-> botActive',
              twoAgo |-> IF last.op = "toggleBotStatus" THEN <<last.was>> ELSE << >>]
  /\ UNCHANGED <<currentStrategy, learningRate, explorationRate, qValues,
                 historicalData, tradingHistory, inFlight>>

\* a handler that also switches the bot on when it stores a strategy
SetStrategy_activates(strategy) ==
  /\ IF ~IsValidStrategy(strategy)
     THEN /\ last' = [op |-> "setStrategy", strategy |-> strategy, status |-> 400,
                      message |-> "Invalid strategy"]
          /\ UNCHANGED <<currentStrategy, botActive>>
     ELSE /\ currentStrategy' = strategy
          /\ botActive' = TRUE
          /\ last' = [op |-> "setStrategy", strategy |-> strategy, status |-> 200,
                      message |-> "success"]
  /\ UNCHANGED <<learningRate, explorationRate, qValues, historicalData, tradingHistory>>
  /\ UNCHANGED inFlight

\* POST /api/trading-bot/strategy
SetStrategy(strategy) ==
  /\ IF ~IsValidStrategy(strategy)
     THEN /\ last' = [op |-> "setStrategy", strategy |-> strategy, status |-> 400,
                      message |-> "Invalid strategy"]
          /\ UNCHANGED currentStrategy
     ELSE /\ currentStrategy' = strategy
          /\ last' = [op |-> "setStrategy", strategy |-> strategy, status |-> 200,
                      message |-> "success"]
  /\ UNCHANGED <<botActive, learningRate, explorationRate, qValues,
                 historicalData, tradingHistory, inFlight>>

\* POST /api/trading-bot/learning-parameters
UpdateLearningParameters(lr, er) ==
  /\ learningRate' = ClampLearningRate(learningRate, lr)
  /\ explorationRate' = ClampExplorationRate(explorationRate, er)
  /\ last' = [op |-> "updateLearningParameters", learningRate |-> lr,
              explorationRate |-> er]
  /\ UNCHANGED <<botActive, currentStrategy, qValues, historicalData, tradingHistory>>
  /\ UNCHANGED inFlight

\* a decision that stores the Q-value it reads for HOLD, 0 when there is none
Decide_storesRead(stockId, random1, random2) ==
  /\ last' = [op |-> "generateTradingDecision", stockId |-> stockId,
              result |-> generateTradingDecision(stockId, random1, random2)]
  /\ qValues' =
       Once(StateAction(StateLabel(getHistoricalPriceData(stockId)), "HOLD"),
            LAMBDA stateAction : QSet(qValues, stateAction, QGet(qValues, stateAction)))
  /\ UNCHANGED <<botActive, currentStrategy, learningRate, explorationRate,
                 historicalData, tradingHistory, inFlight>>

\* GET /api/trading-bot/decision/:stockId
Decide(stockId, random1, random2) ==
  /\ last' = [op |-> "generateTradingDecision", stockId |-> stockId,
              result |-> generateTradingDecision(stockId, random1, random2)]
  /\ UNCHANGED <<botActive, currentStrategy, learningRate, explorationRate, qValues,
                 historicalData, tradingHistory, inFlight>>

\* POST /api/trading-bot/execute-trade
Execute(userId, stockId, action, quantity) ==
  /\ Len(tradingHistory) < Len(demoTradingHistory) + MaxTrades
  /\ LET done == executeTrade(userId, stockId, action, quantity)
     IN  /\ tradingHistory' = done.tradingHistory
         /\ qValues' = done.qValues
         /\ last' = [op |-> "executeTrade", userId |-> userId, stockId |-> stockId,
                     action |-> action, quantity |-> quantity, result |-> done.result]
  /\ UNCHANGED <<botActive, currentStrategy, learningRate, explorationRate,
                 historicalData, inFlight>>

\* GET /api/trading-bot/performance, asked by user userId
GetPerformanceMetrics(userId) ==
  /\ last' = [op |-> "getPerformanceMetrics", userId |-> userId,
              result |-> getPerformanceMetrics(tradingHistory, userId)]
  /\ UNCHANGED <<botActive, currentStrategy, learningRate, explorationRate, qValues,
                 historicalData, tradingHistory, inFlight>>

Next ==
  \/ Toggle
  \/ \E strategy \in StrategyNames : SetStrategy(strategy)
  \/ \E lr \in LearningRates, er \in ExplorationRates : UpdateLearningParameters(lr, er)
  \/ \E stockId \in StockIds, random1 \in ExploreDraws, random2 \in ActionDraws :
       Decide(stockId, random1, random2)
  \/ \E userId \in UserIds, stockId \in StockIds, action \in {"BUY", "SELL", "HOLD"},
        quantity \in Quantities : Execute(userId, stockId, action, quantity)
  \/ \E userId \in UserIds : GetPerformanceMetrics(userId)

Spec == Init /\ [][Next]_vars

(***************************************************************************)
(* Trades under each of the five strategies.                               *)
(***************************************************************************)
NextTrades ==
  \/ \E strategy \in Strategies : SetStrategy(strategy)
  \/ \E lr \in LearningRates, er \in ExplorationRates : UpdateLearningParameters(lr, er)
  \/ \E userId \in UserIds, stockId \in StockIds, action \in {"BUY", "SELL", "HOLD"},
        quantity \in Quantities : Execute(userId, stockId, action, quantity)

SpecTrades == Init /\ [][NextTrades]_vars

(***************************************************************************)
(* The route POST /api/trading-bot/execute-trade with bodies it refuses:   *)
(* a missing field, a quantity of 0, an action outside the three signals.  *)
(* The history of stock 6 is any of the tabulated ones.                    *)
(***************************************************************************)
\* req.body.action; "" stands for an empty or absent one
RequestActions == {"BUY", "SELL", "HOLD", "SHORT", ""}

\* req.body.quantity; 0 stands for a zero or absent one
RequestQuantities == {0, 10}

\* a route that lets any action through
IsValidTradeRequest_anyAction(stockId, action, quantity) ==
  /\ stockId # 0 /\ action # "" /\ quantity # 0

\* the two checks of the route before it calls executeTrade
IsValidTradeRequest(stockId, action, quantity) ==
  /\ stockId # 0 /\ action # "" /\ quantity # 0
  /\ action \in {"BUY", "SELL", "HOLD"}

InitRequests ==
  /\ botActive = TRUE
  /\ currentStrategy = "REINFORCEMENT_LEARNING"
  /\ learningRate = R(1, 100)
  /\ explorationRate = R(1, 10)
  /\ qValues = [key \in {} |-> I(0)]
  /\ historicalData \in [DOMAIN GeneratorParams -> TabulatedHistories]
  /\ tradingHistory = demoTradingHistory
  /\ last = [op |-> "constructor"]
  /\ inFlight = << >>

\* POST /api/trading-bot/execute-trade with any body
ExecuteRequest(userId, stockId, action, quantity) ==
  IF IsValidTradeRequest(stockId, action, quantity)
  THEN Execute(userId, stockId, action, quantity)
  ELSE /\ last' = [op |-> "execute-trade", status |-> 400]
       /\ UNCHANGED <<botActive, currentStrategy, learningRate, explorationRate, qValues,
                      historicalData, tradingHistory, inFlight>>

NextRequests ==
  \/ Toggle
  \/ \E userId \in UserIds, stockId \in StockIds, action \in RequestActions,
        quantity \in RequestQuantities : ExecuteRequest(userId, stockId, action, quantity)

SpecRequests == InitRequests /\ [][NextRequests]_vars

(***************************************************************************)
(* Calls of executeTrade in flight.  executeTrade is an async method        *)
(* written against the promises of IStorage: it runs from its call to      *)
(* `await storage.getStock`, from there to `await                          *)
(* storage.createTradingHistory`, and from there to its return; between    *)
(* these pieces other calls and requests run.  The promise of the ledger   *)
(* write is fulfilled or rejected.  Caller p trades as user p.             *)
(***************************************************************************)
MaxInFlight == 2

Callers == 1..MaxInFlight

\* the stock and the action of a call: a known and an unknown stock
InFlightRequests ==
  { [stockId |-> 6, action |-> "BUY"], [stockId |-> 6, action |-> "HOLD"],
    [stockId |-> 7, action |-> "BUY"] }

InFlightQuantity == 10

\* the calls with the call of caller set to entry
Flight(calls, caller, entry) ==
  [p \in (DOMAIN calls) \cup {caller} |-> IF p = caller THEN entry ELSE calls[p]]

\* executeTrade from its call to the first await: the check of botActive and
\* the call of storage.getStock
CallExecuteTrade(caller, stockId, action) ==
  /\ caller \notin DOMAIN inFlight
  /\ inFlight' =
       Flight(inFlight, caller,
              IF BotInactive(botActive)
              THEN [pc |-> "returned", userId |-> caller, stockId |-> stockId,
                    action |-> action, quantity |-> InFlightQuantity,
                    stock |-> Undefined, result |-> FALSE]
              ELSE [pc |-> "getStock", userId |-> caller, stockId |-> stockId,
                    action |-> action, quantity |-> InFlightQuantity,
                    stock |-> getStock(stockId), result |-> Undefined])
  /\ last' = [op |-> "executeTrade in flight"]
  /\ UNCHANGED <<botActive, currentStrategy, learningRate, explorationRate, qValues,
                 historicalData, tradingHistory>>

\* executeTrade from the first await to the second: the check of the stock
\* and the call of storage.createTradingHistory, whose promise is fulfilled
\* (the record is in the ledger) or rejected (it is not)
ResumeAfterGetStock(caller, fulfilled) ==
  /\ caller \in DOMAIN inFlight
  /\ inFlight[caller].pc = "getStock"
  /\ LET call == inFlight[caller]
     IN  IF call.stock = Undefined
         THEN /\ inFlight' = Flight(inFlight, caller,
                                    [call EXCEPT !.pc = "returned", !.result = FALSE])
              /\ UNCHANGED tradingHistory
         ELSE IF fulfilled
         THEN /\ tradingHistory' =
                   createTradingHistory(tradingHistory, call.userId, call.stockId,
                     call.action, call.quantity, call.stock.currentPrice,
                     TradeProfitLoss(call.action, call.quantity, call.stock.currentPrice))
              /\ inFlight' = Flight(inFlight, caller,
                                    [call EXCEPT !.pc = "createTradingHistory"])
         ELSE /\ inFlight' = Flight(inFlight, caller, [call EXCEPT !.pc = "rejected"])
              /\ UNCHANGED tradingHistory
  /\ last' = [op |-> "executeTrade in flight"]
  /\ UNCHANGED <<botActive, currentStrategy, learningRate, explorationRate, qValues,
                 historicalData>>

\* a return whose update starts from the value the key had when the bot was
\* constructed, not from the value the table holds now
ResumeAfterCreateTradingHistory_staleRead(caller) ==
  /\ caller \in DOMAIN inFlight
  /\ inFlight[caller].pc \in {"createTradingHistory", "rejected"}
  /\ LET call == inFlight[caller]
     IN  IF call.pc = "rejected"
         THEN /\ inFlight' = Flight(inFlight, caller,
                                    [call EXCEPT !.pc = "returned", !.result = FALSE])
              /\ UNCHANGED qValues
         ELSE /\ LET written == updateQValues([key \in {} |-> I(0)], learningRate,
                                              getHistoricalPriceData(call.stockId),
                                              call.action, call.stock.currentPrice)
                 IN  qValues' = [key \in (DOMAIN qValues) \cup (DOMAIN written) |->
                                   IF key \in DOMAIN written THEN written[key]
                                   ELSE qValues[key]]
              /\ inFlight' = Flight(inFlight, caller,
                                    [call EXCEPT !.pc = "returned", !.result = TRUE])
  /\ last' = [op |-> "executeTrade in flight"]
  /\ UNCHANGED <<botActive, currentStrategy, learningRate, explorationRate,
                 historicalData, tradingHistory>>

\* a return that updates the Q-values whether or not the record was written
ResumeAfterCreateTradingHistory_updatesAnyway(caller) ==
  /\ caller \in DOMAIN inFlight
  /\ inFlight[caller].pc \in {"createTradingHistory", "rejected"}
  /\ LET call == inFlight[caller]
     IN  /\ qValues' = updateQValues(qValues, learningRate,
                                     getHistoricalPriceData(call.stockId),
                                     call.action, call.stock.currentPrice)
         /\ inFlight' = Flight(inFlight, caller,
                               [call EXCEPT !.pc = "returned",
                                            !.result = (call.pc # "rejected")])
  /\ last' = [op |-> "executeTrade in flight"]
  /\ UNCHANGED <<botActive, currentStrategy, learningRate, explorationRate,
                 historicalData, tradingHistory>>

\* executeTrade from the second await to its return: updateQValues and true,
\* or the catch block and false
ResumeAfterCreateTradingHistory(caller) ==
  /\ caller \in DOMAIN inFlight
  /\ inFlight[caller].pc \in {"createTradingHistory", "rejected"}
  /\ LET call == inFlight[caller]
     IN  IF call.pc = "rejected"
         THEN /\ inFlight' = Flight(inFlight, caller,
                                    [call EXCEPT !.pc = "returned", !.result = FALSE])
              /\ UNCHANGED qValues
         ELSE /\ qValues' = updateQValues(qValues, learningRate,
                                          getHistoricalPriceData(call.stockId),
                                          call.action, call.stock.currentPrice)
              /\ inFlight' = Flight(inFlight, caller,
                                    [call EXCEPT !.pc = "returned", !.result = TRUE])
  /\ last' = [op |-> "executeTrade in flight"]
  /\ UNCHANGED <<botActive, currentStrategy, learningRate, explorationRate,
                 historicalData, tradingHistory>>

NextInFlight ==
  \/ Toggle
  \/ \E caller \in Callers, request \in InFlightRequests :
       CallExecuteTrade(caller, request.stockId, request.action)
  \/ \E caller \in Callers, fulfilled \in BOOLEAN : ResumeAfterGetStock(caller, fulfilled)
  \/ \E caller \in Callers : ResumeAfterCreateTradingHistory(caller)

SpecInFlight == Init /\ [][NextInFlight]_vars

(***************************************************************************)
(* The reward rules of updateQValues over price changes of up to           *)
(* MaxChange / 2000 either way, in steps of 0.05 %.                        *)
(***************************************************************************)
MaxChange == 60

PriceChanges == { R(k, 2000) : k \in (0 - MaxChange)..MaxChange }

\* the reward updateQValues computes for an action and a price change
ApplyReward(action, priceChange) ==
  /\ last' = [op |-> "reward", action |-> action, priceChange |-> priceChange,
              reward |-> Reward(action, priceChange)]
  /\ UNCHANGED <<botActive, currentStrategy, learningRate, explorationRate, qValues,
                 historicalData, tradingHistory, inFlight>>

NextReward ==
  \E action \in {"BUY", "SELL", "HOLD"}, priceChange \in PriceChanges :
    ApplyReward(action, priceChange)

SpecReward == Init /\ [][NextReward]_vars

(***************************************************************************)
(* The ledger under trades and reports of two users: the demo user and the *)
(* first user that registers (currentIds.users is 2 after the demo data).  *)
(***************************************************************************)
LedgerUserIds == {1, 2}

LedgerQuantities == {10, 25}

NextLedger ==
  \/ Toggle
  \/ \E userId \in LedgerUserIds, stockId \in StockIds, action \in {"BUY", "SELL", "HOLD"},
        quantity \in LedgerQuantities : Execute(userId, stockId, action, quantity)
  \/ \E userId \in LedgerUserIds : GetPerformanceMetrics(userId)

SpecLedger == Init /\ [][NextLedger]_vars

(***************************************************************************)
(* The requests that trade nothing, over a wider range of arguments.       *)
(***************************************************************************)
ConfigStrategyNames == Strategies \cup {"BOGUS"}

ConfigLearningRates ==
  {Undefined, I(-1), R(1, 2000), R(1, 20), I(5), JsonString("fast")}

ConfigExplorationRates ==
  {Undefined, I(0), R(1, 5), R(1, 2), JsonString(""), JsonString("fast")}

NextConfig ==
  \/ Toggle
  \/ \E strategy \in ConfigStrategyNames : SetStrategy(strategy)
  \/ \E lr \in ConfigLearningRates, er \in ConfigExplorationRates :
       UpdateLearningParameters(lr, er)
  \/ \E stockId \in StockIds, random1 \in ExploreDraws, random2 \in ActionDraws :
       Decide(stockId, random1, random2)

SpecConfig == Init /\ [][NextConfig]_vars

(***************************************************************************)
(* The five strategies as functions of the price history: the history of   *)
(* stock 6 is any of InputHistories and the Map qValues any of             *)
(* InputQTables.                                                           *)
(***************************************************************************)
RampDays == 60

RECURSIVE Ramp(_, _)
\* k closes after close c, each the largest whole price the generator of stock 6
\* can reach from the one before (1 + volatility + trend = 1.0253)
Ramp(c, k) ==
  IF k = 0 THEN << >>
  ELSE IF k = 1 THEN <<I((c * 10253) \div 10000)>>
  ELSE Once(Ramp(c, k \div 2),
            LAMBDA head : head \o Ramp(head[Len(head)].n, k - k \div 2))

\* flat at the base price, then RampDays days of the steepest rise
RampHistory == FlatThen(120, HistoryDays + 1 - RampDays, << >>) \o Ramp(120, RampDays)

HistoryLengths == {0, 1, 13, 14, 15, 19, 20, 29, 30, 34, 35, 49, 50, 60}

\* histories whose prices move in the last bars only
SettledHistories ==
  UNION { { FlatThen(120, len, tail) :
              tail \in { t \in {<< >>, <<I(123)>>} : Len(t) <= len } } :
          len \in HistoryLengths } \cup GeneratedHistories

InputHistories == SettledHistories \cup {RampHistory}

InputQTables ==
  { [key \in {} |-> I(0)],
    [key \in {"below_sma50_overbought_low:BUY"} |-> R(1, 2)] }

\* the exploration rate of the constructor, and none
InputExplorationRates == {R(1, 10), I(0)}

\* The exponential averages of a history that moves on many bars have
\* denominators beyond the integers of the checker: such a history is given
\* to the two strategies that use simple averages only.
Representable(strategy, priceHistory) ==
  strategy \in {"MOVING_AVERAGE", "BOLLINGER"} \/ priceHistory \in SettledHistories

InitStrategies ==
  /\ botActive = TRUE
  /\ currentStrategy = "REINFORCEMENT_LEARNING"
  /\ learningRate = R(1, 100)
  /\ explorationRate \in InputExplorationRates
  /\ qValues \in InputQTables
  /\ historicalData \in [DOMAIN GeneratorParams -> InputHistories]
  /\ tradingHistory = demoTradingHistory
  /\ last = [op |-> "constructor"]
  /\ inFlight = << >>

\* movingAverageStrategy, rsiStrategy, macdStrategy or bollingerBandsStrategy
ApplyRule(strategy) ==
  /\ Representable(strategy, historicalData[6])
  /\ last' = [op |-> "strategy", strategy |-> strategy,
              result |-> RuleResult(strategy, historicalData[6])]
  /\ UNCHANGED <<botActive, currentStrategy, learningRate, explorationRate, qValues,
                 historicalData, tradingHistory, inFlight>>

\* reinforcementLearningStrategy
ApplyLearning(random1, random2) ==
  /\ Representable("REINFORCEMENT_LEARNING", historicalData[6])
  /\ last' = [op |-> "strategy", strategy |-> "REINFORCEMENT_LEARNING",
              result |-> reinforcementLearningStrategy(historicalData[6], qValues,
                           explorationRate, random1, random2)]
  /\ UNCHANGED <<botActive, currentStrategy, learningRate, explorationRate, qValues,
                 historicalData, tradingHistory, inFlight>>

NextStrategies ==
  \/ \E strategy \in RuleStrategies : ApplyRule(strategy)
  \/ \E random1 \in ExploreDraws, random2 \in ActionDraws : ApplyLearning(random1, random2)

SpecStrategies == InitStrategies /\ [][NextStrategies]_vars

(***************************************************************************)
(* The exploitation branch of reinforcementLearningStrategy on its own:    *)
(* the bot holds any table of learned values for the state of the history  *)
(* of stock 6, and the branch is taken.  `last` keeps the locals of the    *)
(* branch next to the decision it returns.                                 *)
(***************************************************************************)
\* learned values: a loss, a stored 0, one rewarded HOLD, and values whose
\* gaps reach and pass 1
QInputValues == { R(-1, 2), I(0), R(1, 100), R(1, 2), I(2) }

\* the tables that hold values for none, some or all actions of a state
QTablesOf(state) ==
  UNION { [ { StateAction(state, Actions[i]) : i \in present } -> QInputValues ] :
          present \in SUBSET (1..3) }

InitExploitation ==
  /\ botActive = TRUE
  /\ currentStrategy = "REINFORCEMENT_LEARNING"
  /\ learningRate = R(1, 100)
  /\ explorationRate = R(1, 10)
  /\ historicalData \in [DOMAIN GeneratorParams -> EnsembleHistories]
  /\ qValues \in QTablesOf(StateLabel(historicalData[6]))
  /\ tradingHistory = demoTradingHistory
  /\ last = [op |-> "constructor"]
  /\ inFlight = << >>

\* reinforcementLearningStrategy from "Exploitation" on
ApplyExploitation ==
  /\ last' = Once(StateLabel(historicalData[6]), LAMBDA state :
               Once(ActionValues(qValues, state), LAMBDA actionValues :
                 [op              |-> "exploitation",
                  state           |-> state,
                  actionValues    |-> actionValues,
                  bestAction      |-> BestAction(qValues, state, 3).bestAction,
                  confidenceScore |-> ConfidenceScore(actionValues),
                  rsiResult       |-> RuleResult("RSI", historicalData[6]),
                  macdResult      |-> RuleResult("MACD", historicalData[6]),
                  result          |-> ExploitationDecision(historicalData[6], qValues)]))
  /\ UNCHANGED <<botActive, currentStrategy, learningRate, explorationRate, qValues,
                 historicalData, tradingHistory, inFlight>>

NextExploitation == ApplyExploitation

SpecExploitation == InitExploitation /\ [][NextExploitation]_vars

(***************************************************************************)
(* The moving-average strategy bar by bar: the history of stock 6 grows by *)
(* one close of a rising series at a time and the strategy is asked after  *)
(* every close.  `last` counts the BUY signals so far.                     *)
(***************************************************************************)
SeriesBars == 60

\* rising close series of SeriesBars bars: steady, in cents, accelerating,
\* slowing, the steepest rise of the generator, and flat for 52 bars first
RisingSeries ==
  << [i \in 1..SeriesBars |-> I(100 + i)] \o << >>,
     [i \in 1..SeriesBars |-> R(10000 + 37 * i, 100)] \o << >>,
     [i \in 1..SeriesBars |-> I(100 + i * i)] \o << >>,
     [i \in 1..SeriesBars |-> I(10000 - (SeriesBars + 1 - i) * (SeriesBars + 1 - i))] \o << >>,
     Ramp(120, SeriesBars),
     [i \in 1..SeriesBars |-> I(IF i <= 52 THEN 100 ELSE 48 + i)] \o << >> >>

InitBars ==
  /\ botActive = TRUE
  /\ currentStrategy = "MOVING_AVERAGE"
  /\ learningRate = R(1, 100)
  /\ explorationRate = R(1, 10)
  /\ qValues = [key \in {} |-> I(0)]
  /\ historicalData = (6 :> << >>)
  /\ tradingHistory = demoTradingHistory
  /\ \E n \in 1..Len(RisingSeries) :
       last = [op |-> "series", series |-> n, bar |-> 0, buys |-> 0]
  /\ inFlight = << >>

\* the next close arrives and movingAverageStrategy is applied to the closes so far
NextBar ==
  /\ last.bar < SeriesBars
  /\ historicalData' = (6 :> SubSeq(RisingSeries[last.series], 1, last.bar + 1))
  /\ \E result \in {movingAverageStrategy(historicalData'[6])} :
       last' = [op |-> "bar", series |-> last.series, bar |-> last.bar + 1,
                result |-> result,
                buys |-> last.buys + (IF result.signal = "BUY" THEN 1 ELSE 0)]
  /\ UNCHANGED <<botActive, currentStrategy, learningRate, explorationRate, qValues,
                 tradingHistory, inFlight>>

SpecBars == InitBars /\ [][NextBar]_vars

(***************************************************************************)
(* Properties.                                                             *)
(***************************************************************************)
\* the step is an executeTrade request that returned TRUE
TradeExecuted == last'.op = "executeTrade" /\ last'.result = TRUE

\* the key `${state}:${action}` of the trade of the step
TradeKey == StateLabel(historicalData[last'.stockId]) \o ":" \o last'.action

\* the reward of the trade of the step: the stored price of the stock against
\* the close before the last one of its history
TradeReward ==
  LET closes == historicalData[last'.stockId]
  IN  Reward(last'.action,
             RSub(RDiv(demoStocks[last'.stockId].currentPrice, closes[Len(closes) - 1]),
                  I(1)))

\* the Q-value of the key before the step, 0 if the key is absent
TradeOldQ == IF TradeKey \in DOMAIN qValues THEN qValues[TradeKey] ELSE I(0)

\* C1: executeTrade called while the bot is inactive returns false, writes no
\* record to the ledger and changes no entry of the Q-table.
C1_InactiveExecuteIsNoOp ==
  [][(last'.op = "executeTrade" /\ ~botActive)
       => (last'.result = FALSE /\ tradingHistory' = tradingHistory
           /\ qValues' = qValues)]_vars

\* an executeTrade on a known stock was refused because the bot is inactive
C1_Witness ==
  /\ last.op = "executeTrade" /\ last.stockId = 6 /\ last.result = FALSE
  /\ ~botActive

\* C2: a strategy name outside the five is answered with "Invalid strategy"
\* and leaves currentStrategy unchanged; currentStrategy is one of the five
\* names in every reachable state.
C2_InvalidStrategyRejected ==
  /\ [](currentStrategy \in Strategies)
  /\ [][(last'.op = "setStrategy" /\ last'.strategy \notin Strategies)
          => (last'.status = 400 /\ last'.message = "Invalid strategy"
              /\ currentStrategy' = currentStrategy)]_vars

\* "BOGUS" was refused after the strategy had been changed to MACD
C2_Witness ==
  /\ last.op = "setStrategy" /\ last.strategy = "BOGUS" /\ last.status = 400
  /\ currentStrategy = "MACD"

\* C3: toggleBotStatus flips botActive and returns the new value; after two
\* consecutive calls botActive has the value it had before the first.
C3_ToggleFlipsAndRestores ==
  /\ [][last'.op = "toggleBotStatus"
          => (botActive' = ~botActive /\ last'.result = botActive')]_vars
  /\ [](last.op = "toggleBotStatus" /\ last.twoAgo # << >>
          => botActive = last.twoAgo[1])

\* two consecutive toggles, started while the bot was inactive
C3_Witness ==
  /\ last.op = "toggleBotStatus" /\ last.twoAgo = <<FALSE>>
  /\ last.was = TRUE /\ last.result = FALSE

\* the value v when it lies in lo..hi, else the nearer end
Clamped(v, lo, hi) == IF RLt(v, lo) THEN lo ELSE IF RGt(v, hi) THEN hi ELSE v

\* C4: learningRate stays in [0.001, 0.1] and explorationRate in [0.01, 0.3];
\* updateLearningParameters stores each given argument clamped to its range
\* and leaves the rate of an omitted argument unchanged.
C4_LearningParametersClamped ==
  /\ [](/\ RLe(R(1, 1000), learningRate) /\ RLe(learningRate, R(1, 10))
        /\ RLe(R(1, 100), explorationRate) /\ RLe(explorationRate, R(3, 10)))
  /\ [][last'.op = "updateLearningParameters"
          => /\ learningRate' =
                  IF last'.learningRate = Undefined THEN learningRate
                  ELSE Clamped(ToNumber(last'.learningRate), R(1, 1000), R(1, 10))
             /\ explorationRate' =
                  IF last'.explorationRate = Undefined THEN explorationRate
                  ELSE Clamped(ToNumber(last'.explorationRate), R(1, 100), R(3, 10))]_vars

C6_UnknownStockExecuteIsNoOp ==
  [][(last'.op = "executeTrade" /\ last'.stockId \notin DOMAIN demoStocks)
       => (last'.result = FALSE /\ tradingHistory' = tradingHistory
           /\ qValues' = qValues)]_vars

\* an active bot that had already traded refused a trade of stock 7
C6_Witness ==
  /\ last.op = "executeTrade" /\ last.stockId = 7 /\ last.result = FALSE
  /\ botActive /\ Len(tradingHistory) > Len(demoTradingHistory)

\* the gate of each strategy, in bars
Gate(strategy) ==
  CASE strategy = "MOVING_AVERAGE" -> 50
    [] strategy = "RSI" -> 15
    [] strategy = "MACD" -> 35
    [] strategy = "BOLLINGER" -> 20
    [] strategy = "REINFORCEMENT_LEARNING" -> 30

InsufficientDataReasons ==
  { "Insufficient historical data for MA strategy",
    "Insufficient historical data for RSI strategy",
    "Insufficient historical data for MACD strategy",
    "Insufficient historical data for Bollinger Bands strategy",
    "Insufficient historical data for RL strategy" }

\* C7: on a price history shorter than its gate (moving average 50, RSI 15,
\* MACD 35, Bollinger 20, Q-learning 30 bars) a strategy returns HOLD with
\* confidence 50 and a reason that says the historical data is insufficient.
C7_ShortHistoryHolds ==
  (last.op = "strategy" /\ Len(historicalData[6]) < Gate(last.strategy))
    => /\ last.result.signal = "HOLD"
       /\ last.result.confidence = I(50)
       /\ last.result.reason \in InsufficientDataReasons

\* the MACD strategy held on 34 bars that end with a rise
C7_Witness ==
  /\ last.op = "strategy" /\ last.strategy = "MACD"
  /\ Len(historicalData[6]) = 34 /\ historicalData[6][34] = I(123)
  /\ last.result.signal = "HOLD" /\ last.result.confidence = I(50)

\* C8: the confidence of every decision a strategy returns lies in [0, 100].
C8_ConfidenceInRange ==
  last.op = "strategy"
    => RLe(I(0), last.result.confidence) /\ RLe(last.result.confidence, I(100))

\* C9: a trade sets the Q-value of its key to Q0 + alpha (R - Q0), where Q0 is
\* the value the key had before (0 if the key was absent); it adds no other
\* key and changes no other entry.
C9_QUpdateRule ==
  [][TradeExecuted
       => /\ DOMAIN qValues' = DOMAIN qValues \cup {TradeKey}
          /\ qValues'[TradeKey] =
               RAdd(TradeOldQ, RMul(learningRate, RSub(TradeReward, TradeOldQ)))
          /\ \A key \in DOMAIN qValues \ {TradeKey} : qValues'[key] = qValues[key]]_vars

\* C10: when a trade of the same stock and action is repeated, its Q-value
\* moves toward the reward R: no update increases |Q - R| and none takes Q to
\* the other side of R.
C10_QMovesTowardReward ==
  [][TradeExecuted
       => /\ RLe(RAbs(RSub(qValues'[TradeKey], TradeReward)),
                 RAbs(RSub(TradeOldQ, TradeReward)))
          /\ RLe(TradeOldQ, TradeReward) => RLe(qValues'[TradeKey], TradeReward)
          /\ RGe(TradeOldQ, TradeReward) => RGe(qValues'[TradeKey], TradeReward)]_vars

\* the average of the last n of the closes
WindowMean(closes, n) == RDiv(SumSeq(LastN(closes, n), n), I(n))

\* the average of the last 10 closes is above the average of the last 50
ShortAboveLong(closes) ==
  Len(closes) >= 50 /\ RGt(WindowMean(closes, 10), WindowMean(closes, 50))

LearningRequest(request) ==
  request.op = "strategy" /\ request.strategy = "REINFORCEMENT_LEARNING"

\* C12: with the exploration rate at 0 and the Q-table and the price history
\* unchanged, two consecutive decisions of the Q-learning strategy are the same
\* Decision, whatever Math.random() returns for either of them.
C12_GreedyIsDeterministic ==
  [][(explorationRate = I(0) /\ LearningRequest(last) /\ LearningRequest(last')
        /\ qValues' = qValues /\ historicalData' = historicalData)
       => last'.result = last.result]_vars

\* a decision at exploration rate 0 that the Q-table decides: BUY, the one
\* action with a positive Q-value
C12_Witness ==
  /\ explorationRate = I(0)
  /\ LearningRequest(last)
  /\ Len(historicalData[6]) >= 30
  /\ qValues # [key \in {} |-> I(0)]
  /\ last.result.signal = "BUY"
  /\ RGt(last.result.confidence, I(50))

\* the entries of the ledger that carry userId
TradesOf(userId) ==
  SelectSeq(tradingHistory, LAMBDA entry : entry.userId = userId)

\* C13: the report a user asks for counts the ledger entries of that user, its
\* total return is the sum of their profitLoss (an entry without one adds
\* nothing), and its win rate is the number of them with profitLoss > 0
\* divided by their count.
C13_MetricsOfTheUsersTrades ==
  last.op = "getPerformanceMetrics"
    => /\ last.result.totalTrades = Len(TradesOf(last.userId))
       /\ last.result.totalReturn = SumOver(TradesOf(last.userId), ProfitLossOrZero)
       /\ Len(TradesOf(last.userId)) > 0
            => last.result.winRate =
                 R(Len(SelectSeq(TradesOf(last.userId), IsSuccessfulTrade)),
                   Len(TradesOf(last.userId)))

\* C14: the Map qValues changes only in a trade that executeTrade carries out
\* (the updateQValues call); a decision, a toggle, a change of strategy or of
\* the learning parameters and a performance report leave it as it is.
C14_OnlyTradesWriteQValues ==
  [][qValues' # qValues => (last'.op = "executeTrade" /\ last'.result = TRUE)]_vars

\* a decision taken by exploitation when the Map already holds a Q-value
C14_Witness ==
  /\ qValues # [key \in {} |-> I(0)]
  /\ last.op = "generateTradingDecision"
  /\ last.stockId = 6
  /\ currentStrategy = "REINFORCEMENT_LEARNING"
  /\ last.result.reason # "Exploration phase - trying new action"

\* C15: a trade that executeTrade carries out while one of the four rule-based
\* strategies is selected sets the Q-value of the key `${state}:${action}` of
\* the trade to the value of the update, as it does under the Q-learning
\* strategy.
C15_TradesLearnUnderEveryStrategy ==
  [][(TradeExecuted /\ currentStrategy \in RuleStrategies)
       => /\ TradeKey \in DOMAIN qValues'
          /\ qValues'[TradeKey] =
               NewQValue(QGet(qValues, TradeKey), learningRate, TradeReward)
          /\ \A key \in DOMAIN qValues : key # TradeKey => qValues'[key] = qValues[key]]_vars

\* a SELL under the Bollinger strategy left a Q-value for its key
C15_Witness ==
  /\ currentStrategy = "BOLLINGER"
  /\ last.op = "executeTrade" /\ last.result = TRUE /\ last.action = "SELL"
  /\ StateLabel(historicalData[6]) \o ":SELL" \in DOMAIN qValues
  /\ qValues[StateLabel(historicalData[6]) \o ":SELL"] # I(0)

\* C16: a new bot is active with the strategy REINFORCEMENT_LEARNING; a toggle
\* leaves currentStrategy as it is and a setStrategy request, accepted or
\* refused, leaves botActive as it is.
C16_ActiveAndStrategyIndependent ==
  /\ [](last.op = "constructor"
          => botActive = TRUE /\ currentStrategy = "REINFORCEMENT_LEARNING")
  /\ [][last'.op = "toggleBotStatus" => currentStrategy' = currentStrategy]_vars
  /\ [][last'.op = "setStrategy" => botActive' = botActive]_vars

\* a strategy was stored while the bot was switched off, and the bot is still off
C16_Witness ==
  /\ last.op = "setStrategy" /\ last.status = 200 /\ last.strategy = "RSI"
  /\ currentStrategy = "RSI"
  /\ botActive = FALSE

\* the decisions the strategy of the given name can return on the closes
DecisionsOf(strategy, closes) ==
  IF strategy = "REINFORCEMENT_LEARNING"
  THEN { reinforcementLearningStrategy(closes, qValues, explorationRate, random1, random2) :
           random1 \in ExploreDraws, random2 \in ActionDraws }
  ELSE {RuleResult(strategy, closes)}

NewRecord == tradingHistory'[Len(tradingHistory')]

\* C18: executeTrade on a known stock while the bot is active returns true and
\* appends one entry to the ledger, with the userId, stock, action and quantity
\* of the call and the stored price of the stock, and with profitLoss
\* quantity * price * 0.03 for SELL and none for BUY and HOLD; the entries
\* written before are as they were.
C18_TradeAppendsOneRecord ==
  [][(last'.op = "executeTrade" /\ botActive /\ last'.stockId \in DOMAIN demoStocks)
       => /\ last'.result = TRUE
          /\ Len(tradingHistory') = Len(tradingHistory) + 1
          /\ SubSeq(tradingHistory', 1, Len(tradingHistory)) = tradingHistory
          /\ NewRecord.userId = last'.userId
          /\ NewRecord.stockId = last'.stockId
          /\ NewRecord.action = last'.action
          /\ NewRecord.quantity = last'.quantity
          /\ NewRecord.price = demoStocks[last'.stockId].currentPrice
          /\ NewRecord.profitLoss =
               IF last'.action = "SELL"
               THEN RMul(RMul(I(last'.quantity), NewRecord.price), R(3, 100))
               ELSE Undefined]_vars

\* user 2 sold 25 shares of stock 6 at 123.45 after an earlier trade:
\* profitLoss 25 * 123.45 * 0.03 = 92.5875
C18_Witness ==
  /\ last.op = "executeTrade" /\ last.result = TRUE
  /\ last.userId = 2 /\ last.quantity = 25 /\ last.action = "SELL"
  /\ Len(tradingHistory) = Len(demoTradingHistory) + 2
  /\ tradingHistory[Len(tradingHistory)].userId = 2
  /\ tradingHistory[Len(tradingHistory)].profitLoss = R(7407, 80)
  /\ SubSeq(tradingHistory, 1, Len(demoTradingHistory)) = demoTradingHistory

\* the magnitude of a price change
Magnitude(change) == IF RLt(change, I(0)) THEN RSub(I(0), change) ELSE change

\* C19: the reward is 100 times the price change for a BUY when the price
\* rose, 100 times its magnitude for a SELL when the price fell, 1 for a HOLD
\* when the magnitude is below 0.01, and minus 50 times the magnitude in every
\* other case; so a BUY without a rise, a SELL without a fall and a HOLD with
\* a magnitude of 0.01 or more never get a positive reward.
C19_RewardRules ==
  last.op = "reward"
    => LET rose   == RGt(last.priceChange, I(0))
           fell   == RLt(last.priceChange, I(0))
           stable == RLt(Magnitude(last.priceChange), R(1, 100))
       IN  /\ (last.action = "BUY" /\ rose)
                => last.reward = RMul(last.priceChange, I(100))
           /\ (last.action = "SELL" /\ fell)
                => last.reward = RMul(Magnitude(last.priceChange), I(100))
           /\ (last.action = "HOLD" /\ stable) => last.reward = I(1)
           /\ (\/ last.action = "BUY" /\ ~rose
               \/ last.action = "SELL" /\ ~fell
               \/ last.action = "HOLD" /\ ~stable)
                => /\ last.reward = RSub(I(0), RMul(Magnitude(last.priceChange), I(50)))
                   /\ ~RGt(last.reward, I(0))

\* a HOLD over a price change of exactly 0.01 is charged 0.5
C19_Witness ==
  /\ last.op = "reward" /\ last.action = "HOLD"
  /\ last.priceChange = R(1, 100)
  /\ last.reward = R(-1, 2)

\* the change of the last close of the traded stock against the close before it
CloseDelta ==
  LET closes == historicalData[last'.stockId]
  IN  RDiv(RSub(closes[Len(closes)], closes[Len(closes) - 1]), closes[Len(closes) - 1])

\* C20: the Q-value a trade leaves for its key is the update with the reward
\* of the price change (P_t - P_t-1) / P_t-1, P_t the last close of the
\* history of the stock and P_t-1 the close before it.
C20_RewardOfLastTwoCloses ==
  [][TradeExecuted
       => /\ TradeKey \in DOMAIN qValues'
          /\ qValues'[TradeKey] =
               NewQValue(QGet(qValues, TradeKey), learningRate,
                         Reward(last'.action, CloseDelta))]_vars

\* the value the table holds for the i-th action in the state of the last
\* exploitation, an absent entry counting as 0
LearnedValue(i) ==
  LET key == StateAction(last.state, Actions[i])
  IN  IF key \in DOMAIN qValues THEN qValues[key] ELSE I(0)

\* C21: in exploitation the chosen action has the largest value of the table
\* for the current state, absent entries counting as 0, and of several
\* actions with the largest value the first in the order BUY, SELL, HOLD is
\* chosen.
C21_FirstLargestValueIsChosen ==
  last.op = "exploitation"
    => \E i \in 1..3 :
         /\ last.result.signal = Actions[i]
         /\ \A j \in 1..3 : RLe(LearnedValue(j), LearnedValue(i))
         /\ \A j \in 1..(i - 1) : RLt(LearnedValue(j), LearnedValue(i))

\* SELL and HOLD share the largest value 0.5 while BUY lost: SELL is chosen
C21_Witness ==
  /\ last.op = "exploitation"
  /\ LearnedValue(1) = R(-1, 2) /\ LearnedValue(2) = R(1, 2) /\ LearnedValue(3) = R(1, 2)
  /\ last.result.signal = "SELL"

\* the largest of the three values of the last exploitation
BestValue == RMax(LearnedValue(1), RMax(LearnedValue(2), LearnedValue(3)))

\* the mean of the two values that remain when the best one is set aside
MeanOfOtherTwo ==
  RDiv(RSub(RAdd(RAdd(LearnedValue(1), LearnedValue(2)), LearnedValue(3)), BestValue),
       I(2))

\* C22: for every triple of values of the three actions, ties included, the
\* confidence of exploitation before the ensemble is min(95, 50 + d * 30),
\* d being the gap between the best value and the mean of the other two
\* values, clamped to [0, 1].
C22_ConfidenceOfGapToMeanOfOthers ==
  last.op = "exploitation"
    => LET d == RMin(I(1), RMax(I(0), RSub(BestValue, MeanOfOtherTwo)))
       IN  last.confidenceScore = RMin(I(95), RAdd(I(50), RMul(d, I(30))))

\* the names in a list of indicators
Reported(indicatorsUsed) == { indicatorsUsed[i] : i \in 1..Len(indicatorsUsed) }

\* C23: in the ensemble with the learned confidence c and the chosen action
\* a, the decision has confidence min(95, c + 15) and reports Reinforcement
\* Learning, RSI and MACD when the RSI and the MACD decision both have signal
\* a; it has confidence min(90, c + 5) and reports the agreeing indicator, not
\* the other one, when exactly one of them has signal a; it has confidence c
\* when neither has; and its signal is a in all three cases.
C23_EnsembleRules ==
  last.op = "exploitation"
    => LET a          == last.bestAction
           c          == last.confidenceScore
           rsiAgrees  == last.rsiResult.signal = a
           macdAgrees == last.macdResult.signal = a
           reported   == Reported(last.result.indicatorsUsed)
       IN  /\ last.result.signal = a
           /\ (rsiAgrees /\ macdAgrees)
                => /\ last.result.confidence = RMin(I(95), RAdd(c, I(15)))
                   /\ reported = {"Reinforcement Learning", "RSI", "MACD"}
           /\ (rsiAgrees /\ ~macdAgrees)
                => /\ last.result.confidence = RMin(I(90), RAdd(c, I(5)))
                   /\ "RSI" \in reported /\ "MACD" \notin reported
           /\ (macdAgrees /\ ~rsiAgrees)
                => /\ last.result.confidence = RMin(I(90), RAdd(c, I(5)))
                   /\ "MACD" \in reported /\ "RSI" \notin reported
           /\ (~rsiAgrees /\ ~macdAgrees) => last.result.confidence = c

\* after a fall to 118 RSI says BUY and MACD says SELL; SELL leads by 0.5 - 
\* (-0.5 + 0) / 2 = 0.75, so c = 72.5 and the decision is SELL at 77.5 with MACD
C23_Witness ==
  /\ last.op = "exploitation"
  /\ last.rsiResult.signal = "BUY" /\ last.macdResult.signal = "SELL"
  /\ last.actionValues = <<R(-1, 2), R(1, 2), I(0)>>
  /\ last.bestAction = "SELL"
  /\ last.confidenceScore = R(145, 2)
  /\ last.result.signal = "SELL"
  /\ last.result.confidence = R(155, 2)
  /\ last.result.indicatorsUsed = <<"Reinforcement Learning", "MACD">>

\* the keys of the table the step wrote: new ones and ones whose value changed
WrittenKeys ==
  { key \in DOMAIN qValues' : key \notin DOMAIN qValues \/ qValues'[key] # qValues[key] }

\* a value above every value the table can hold within the trades modelled
Dominant == I(1000)

\* C24: the key the update of a trade writes for the price history of a stock
\* and the action a is the key the exploitation lookup reads for that history
\* and a: it is the label of the state encoder on the history joined with a,
\* and a dominant value under it makes exploitation on that history choose a.
C24_UpdateWritesTheKeyExploitationReads ==
  [][TradeExecuted
       => LET priceHistory == historicalData[last'.stockId]
              encoded      == StateAction(StateLabel(priceHistory), last'.action)
          IN  /\ encoded \in DOMAIN qValues'
              /\ \A key \in WrittenKeys :
                   /\ key = encoded
                   /\ ExploitationDecision(priceHistory,
                                           QSet(qValues', key, Dominant)).signal
                        = last'.action]_vars

\* a HOLD on stock 6 after two falls wrote the key of the state the encoder
\* gives for that history, next to the key an earlier BUY wrote, whose value
\* exploitation reads as the largest
C24_Witness ==
  /\ last.op = "executeTrade" /\ last.result = TRUE /\ last.action = "HOLD"
  /\ createStateRepresentation(historicalData[6]) = "below_sma50_oversold_low"
  /\ DOMAIN qValues = {"below_sma50_oversold_low:BUY", "below_sma50_oversold_low:HOLD"}
  /\ RGt(qValues["below_sma50_oversold_low:BUY"], I(0))
  /\ ExploitationDecision(historicalData[6], qValues).signal = "BUY"

\* C25: the set of keys present in the Q-table only grows: no operation
\* removes a key that is present.
C25_KeysOnlyGrow ==
  [][DOMAIN qValues \subseteq DOMAIN qValues']_vars

\* two trades set two keys one after the other, and both are present after a
\* later toggle
C25_Witness ==
  /\ last.op = "toggleBotStatus"
  /\ Cardinality(DOMAIN qValues) = 2
  /\ Len(tradingHistory) = Len(demoTradingHistory) + 2

\* C26: when calls of toggleBotStatus run between the pieces of a call of
\* executeTrade in flight, no record is appended to the ledger at a moment
\* when botActive is false.
C26_NoRecordWhileInactive ==
  [][Len(tradingHistory') > Len(tradingHistory) => botActive]_vars

\* the callers whose call of executeTrade has returned true
ReturnedTrue ==
  { p \in DOMAIN inFlight : inFlight[p].pc = "returned" /\ inFlight[p].result = TRUE }

\* the table after the Q-update of the call of caller p alone
UpdateOf(qTable, p) ==
  updateQValues(qTable, learningRate, getHistoricalPriceData(inFlight[p].stockId),
                inFlight[p].action, demoStocks[inFlight[p].stockId].currentPrice)

\* the tables that result from the updates of callers, each applied once, one
\* after another in any order
RECURSIVE SequentialTables(_, _)
SequentialTables(qTable, callers) ==
  IF callers = {} THEN {qTable}
  ELSE UNION { SequentialTables(UpdateOf(qTable, p), callers \ {p}) : p \in callers }

\* C27: with several calls of executeTrade in flight at once no Q-update is
\* lost: the Q-table is the result of applying the update of every call that
\* has returned true exactly once, one whole update after another, in some
\* order, starting from the empty table of the constructor.
C27_UpdatesAreSerial ==
  qValues \in SequentialTables([key \in {} |-> I(0)], ReturnedTrue)

\* both callers bought stock 6 and both have returned true: the one key holds
\* the value of two updates, not of one
C27_Witness ==
  /\ DOMAIN inFlight = {1, 2}
  /\ ReturnedTrue = {1, 2}
  /\ \A p \in {1, 2} : inFlight[p].stockId = 6 /\ inFlight[p].action = "BUY"
  /\ Cardinality(DOMAIN qValues) = 1
  /\ qValues # UpdateOf([key \in {} |-> I(0)], 1)
  /\ Len(tradingHistory) = Len(demoTradingHistory) + 2

\* the labels of the state encoder: 2 price levels, 3 RSI levels and 3
\* volatility levels, and the label of a history of fewer than 14 bars
EncoderLabels ==
  { price \o "_" \o rsi \o "_" \o volatility :
      price \in {"above_sma50", "below_sma50"},
      rsi \in {"oversold", "overbought", "neutral"},
      volatility \in {"low", "high", "medium"} } \cup {"insufficient_data"}

\* C28: after any sequence of requests every key of the Q-table joins one of
\* the at most 19 labels of the state encoder with one of the actions BUY,
\* SELL, HOLD, so the table never holds more than 57 entries.
C28_KeysAreLabelAndAction ==
  /\ Cardinality(EncoderLabels) <= 19
  /\ DOMAIN qValues \subseteq
       { StateAction(label, action) : label \in EncoderLabels,
                                      action \in {"BUY", "SELL", "HOLD"} }
  /\ Cardinality(DOMAIN qValues) <= 57

\* after requests with the action SHORT and with no action were refused, two
\* trades have set two keys of the same label
C28_Witness ==
  /\ last.op = "execute-trade" /\ last.status = 400
  /\ DOMAIN qValues = {"above_sma50_neutral_low:SELL", "above_sma50_neutral_low:HOLD"}

\* the callers whose call returns in the step
Returning ==
  { p \in DOMAIN inFlight : inFlight[p].pc # "returned" /\ inFlight'[p].pc = "returned" }

\* the ledger holds the record of the call of caller p
HasRecordOf(ledger, p) ==
  \E i \in (Len(demoTradingHistory) + 1)..Len(ledger) :
    /\ ledger[i].userId = inFlight[p].userId
    /\ ledger[i].stockId = inFlight[p].stockId
    /\ ledger[i].action = inFlight[p].action
    /\ ledger[i].quantity = inFlight[p].quantity

\* C29: within executeTrade the record is written before the Q-update: a call
\* whose ledger write failed returns false and leaves the Q-table as it was,
\* and whenever a Q-update is applied the record of its call is in the
\* ledger already.
C29_RecordBeforeUpdate ==
  [][/\ \A p \in Returning :
          /\ inFlight[p].pc = "rejected"
               => (inFlight'[p].result = FALSE /\ qValues' = qValues)
          /\ inFlight'[p].result = TRUE => HasRecordOf(tradingHistory, p)
     /\ qValues' # qValues
          => \E p \in Returning :
               inFlight'[p].result = TRUE /\ HasRecordOf(tradingHistory, p)]_vars

\* the ledger write of caller 1 on the known stock failed and the call
\* returned false; the call of caller 2 wrote its record and set the one key
C29_Witness ==
  /\ DOMAIN inFlight = {1, 2}
  /\ inFlight[1].pc = "returned" /\ inFlight[1].result = FALSE
  /\ inFlight[1].stock # Undefined
  /\ inFlight[2].pc = "returned" /\ inFlight[2].result = TRUE
  /\ Len(tradingHistory) = Len(demoTradingHistory) + 1
  /\ tradingHistory[Len(tradingHistory)].userId = 2
  /\ Cardinality(DOMAIN qValues) = 1

\* the last request was a decision of the Q-learning strategy on a known stock
\* with at least 30 bars, and the strategy did not explore
ExploitedDecision ==
  /\ last.op = "generateTradingDecision"
  /\ currentStrategy = "REINFORCEMENT_LEARNING"
  /\ last.stockId \in DOMAIN demoStocks
  /\ Len(getHistoricalPriceData(last.stockId)) >= 30
  /\ last.result.reason # "Exploration phase - trying new action"

\* C30: until the first successful trade the Q-table is empty, and while it is
\* empty every decision of the Q-learning strategy on at least 30 bars that
\* is not an exploration step has signal BUY and confidence 50, 55 or 65.
C30_BuyUntilFirstTrade ==
  /\ Len(tradingHistory) = Len(demoTradingHistory) => DOMAIN qValues = {}
  /\ (DOMAIN qValues = {} /\ ExploitedDecision)
       => /\ last.result.signal = "BUY"
          /\ last.result.confidence \in {I(50), I(55), I(65)}

\* no trade yet; on the history that ends with two falls RSI says BUY as well,
\* and the decision is BUY at 55
C30_Witness ==
  /\ Len(tradingHistory) = Len(demoTradingHistory)
  /\ DOMAIN qValues = {}
  /\ ExploitedDecision
  /\ last.result.signal = "BUY"
  /\ last.result.confidence = I(55)
  /\ last.result.indicatorsUsed = <<"Reinforcement Learning", "RSI">>
====
